---- MODULE Spec2Model ----
(***************************************************************************)
(* A model of the curvefever simulation engine                            *)
(* (src/curvefever_game/src/world.rs) and of the parts of the application *)
(* (src/curvefever_game/src/app.rs) that mutate the World.                *)
(*                                                                         *)
(* Units.  The engine computes in f32; the model computes in integers:    *)
(*   - time is counted in ticks (UPDATE_TIME = 1);                        *)
(*   - angles are counted in quarter turns (PI = 2, TAU = 4), so that cos *)
(*     and sin are exact; the result of atan2(..).rem_euclid(TAU) is kept *)
(*     as a code 0..7 (2q: exactly q quarter turns, 2q+1: strictly        *)
(*     between q and q+1 quarter turns), which decides every comparison   *)
(*     of the source against a section's angles exactly;                  *)
(*   - positions are points <<x, y>> of the integer grid; a length that   *)
(*     the source halves (0.5 * thickness) is carried doubled, and        *)
(*     distances are compared by their squares.                           *)
(* The program's constants are scaled to this grid.                       *)
(***************************************************************************)
EXTENDS Integers, Sequences, FiniteSets, TLC

VARIABLES
    state,       \* World.state: [kind, start]
    clock,       \* World.clock: [now, frame_delta]
    items,       \* World.items
    effects,     \* World.effects
    players,     \* World.players
    crash_feed,  \* World.crash_feed
    next_id,     \* World.next_id
    t            \* the unit under test of the pure-function specifications;
                 \* "panic" once a call has aborted the program; in SpecLock
                 \* the RwLock around the World and the threads using it

vars == <<state, clock, items, effects, players, crash_feed, next_id, t>>

world_vars == <<state, clock, items, effects, players, crash_feed, next_id>>

---------------------------------------------------------------------------
(* Program constants, scaled to ticks / quarter turns / grid units.  The   *)
(* source values are: UPDATE_TIME 1/240 s, WORLD_SIZE 1280 x 720,          *)
(* MIN_PLAYER_WALL_DIST 150, MIN_PLAYER_DIST 200, MIN_ITEM_WALL_DIST 40,   *)
(* MIN_ITEM_DIST 80, ITEM_RADIUS 7.5, START_DELAY 2 s, MAX_ITEMS 8,        *)
(* PLAYER_EFFECT_DURATION 5 s (+ 0 or 1 s), GAP_EFFECT_DURATION 150 ms     *)
(* (+ 0 or 100 ms), WORLD_EFFECT_DURATION 10 s (+ 0 or 3 s), BASE_SPEED    *)
(* 150, MIN_SPEED 50, BASE_THICKNESS 4, MIN_THICKNESS 1,                   *)
(* BASE_TURNING_RADIUS 50, MIN_TURNING_RADIUS 25.  The model keeps their   *)
(* roles and their order (MIN_x < BASE_x, every duration at least one      *)
(* tick) on a grid small enough to enumerate; one tick of the model moves  *)
(* a player by BASE_SPEED grid units or turns it by a quarter turn.        *)

UPDATE_TIME == 1
WORLD_SIZE == <<10, 8>>
MIN_PLAYER_WALL_DIST == 2
MIN_PLAYER_DIST == 2
MIN_ITEM_WALL_DIST == 1
MIN_ITEM_DIST == 2
ITEM_RADIUS == 1
START_DELAY == 1
MAX_ITEMS == 2

PLAYER_EFFECT_DURATION == 3
PLAYER_EFFECT_DEVIATION_DURATION == 1
GAP_EFFECT_DURATION == 1
GAP_EFFECT_DEVIATION_DURATION == 1
WORLD_EFFECT_DURATION == 2
WORLD_EFFECT_DEVIATION_DURATION == 1
BASE_SPEED == 2
MIN_SPEED == 1
BASE_THICKNESS == 2
MIN_THICKNESS == 1
BASE_TURNING_RADIUS == 2
MIN_TURNING_RADIUS == 1

PI == 2
TAU == 4
FRAC_PI_2 == 1

ITEM_KINDS ==
    << "Speedup", "Slowdown", "FastTurning", "SlowTurning", "Expand",
       "Shrink", "Ghost", "NoGap", "WallTeleporting", "Clear" >>

PLAYER_COLORS ==
    << "Orange", "Green", "Purple", "Cyan", "Magenta", "Red", "Yellow", "Blue" >>

Direction == {"Straight", "Right", "Left"}

GameStateKinds == {"Starting", "Running", "Paused", "Stopped"}

---------------------------------------------------------------------------
(* Arithmetic helpers.                                                     *)

Max(a, b) == IF a >= b THEN a ELSE b

Abs(a) == IF a < 0 THEN -a ELSE a

\* f32::cos / f32::sin of an angle given in quarter turns.
CosQ(a) == CASE a % 4 = 0 -> 1 [] a % 4 = 1 -> 0 [] a % 4 = 2 -> -1 [] OTHER -> 0

SinQ(a) == CASE a % 4 = 0 -> 0 [] a % 4 = 1 -> 1 [] a % 4 = 2 -> 0 [] OTHER -> -1

\* The square of twice Pos2::distance(a, b).
distance(a, b) == 4 * ((a[1] - b[1]) * (a[1] - b[1]) + (a[2] - b[2]) * (a[2] - b[2]))

\* d < 0.5 * lim2 and d > 0.5 * lim2, for d given as distance(..) above.
Lt(dsq, lim2) == lim2 > 0 /\ dsq < lim2 * lim2

Gt(dsq, lim2) == lim2 < 0 \/ dsq > lim2 * lim2

\* atan2(dy, dx).rem_euclid(TAU) as a code 0..7; atan2(0, 0) = 0.
Atan2Code(dy, dx) ==
    CASE dy = 0 /\ dx >= 0 -> 0
      [] dy > 0 /\ dx > 0 -> 1
      [] dy > 0 /\ dx = 0 -> 2
      [] dy > 0 /\ dx < 0 -> 3
      [] dy = 0 /\ dx < 0 -> 4
      [] dy < 0 /\ dx < 0 -> 5
      [] dy < 0 /\ dx = 0 -> 6
      [] OTHER -> 7

\* fn angle(a, b), reduced by rem_euclid(TAU) as at each of its call sites.
angle(a, b) == Atan2Code(b[2] - a[2], b[1] - a[1])

\* fn intersects(a, b, dist); dist2 is twice dist.
intersects(a, b, dist2) == Lt(distance(a, b), dist2)

---------------------------------------------------------------------------
(* Effects and the attributes a player derives from them.                  *)

\* struct Effect<T> { start, duration, kind }; kind is [type, delta].
Effect(start, duration, type, delta) ==
    [start |-> start, duration |-> duration, kind |-> [type |-> type, delta |-> delta]]

\* retain_active keeping an effect through the tick at which it runs out.
retain_active_late(effs, now) == SelectSeq(effs, LAMBDA e : e.start + e.duration >= now)

\* The retain(|e| e.start + e.duration > now) of the expiry steps.
retain_active(effs, now) == SelectSeq(effs, LAMBDA e : e.start + e.duration > now)

\* iter().filter_map(kind of the given type).sum()
RECURSIVE sum_deltas(_, _)
sum_deltas(effs, type) ==
    IF effs = << >> THEN 0
    ELSE (IF Head(effs).kind.type = type THEN Head(effs).kind.delta ELSE 0)
         + sum_deltas(Tail(effs), type)

\* gap() counting only the effects that got the longer duration.
gap_by_duration(p) ==
    \E i \in 1..Len(p.effects) :
        /\ p.effects[i].kind.type \in {"Gap", "Ghost"}
        /\ p.effects[i].duration > GAP_EFFECT_DURATION

\* Player::gap
gap(p) == \E i \in 1..Len(p.effects) : p.effects[i].kind.type \in {"Gap", "Ghost"}

\* Player::no_gap
no_gap(p) == \E i \in 1..Len(p.effects) : p.effects[i].kind.type = "NoGap"

\* Player::direction
direction(p) ==
    IF p.local_direction = "Straight" THEN p.remote_direction ELSE p.local_direction

\* Player::speed without the floor.
speed_unclamped(p) == BASE_SPEED + sum_deltas(p.effects, "Speed")

\* Player::speed
speed(p) == Max(BASE_SPEED + sum_deltas(p.effects, "Speed"), MIN_SPEED)

\* Player::thickness
thickness(p) == Max(BASE_THICKNESS + sum_deltas(p.effects, "Size"), MIN_THICKNESS)

\* Player::turning_radius
turning_radius(p) ==
    Max(BASE_TURNING_RADIUS + sum_deltas(p.effects, "Turning"), MIN_TURNING_RADIUS)

\* TurnDirection::angle_sign
angle_sign(dir) == IF dir = "Right" THEN 1 ELSE -1

\* fn gap_effect; jitter is the outcome of rng.gen_range(0..=1).
gap_effect(now, jitter) ==
    Effect(now, GAP_EFFECT_DURATION + jitter * GAP_EFFECT_DEVIATION_DURATION, "Gap", 0)

\* fn player_effect
player_effect(now, jitter, type, delta) ==
    Effect(now, PLAYER_EFFECT_DURATION + jitter * PLAYER_EFFECT_DEVIATION_DURATION,
           type, delta)

\* fn world_effect
world_effect(now, jitter, type) ==
    Effect(now, WORLD_EFFECT_DURATION + jitter * WORLD_EFFECT_DEVIATION_DURATION,
           type, 0)

\* World::wall_teleporting
wall_teleporting(effs) ==
    \E i \in 1..Len(effs) : effs[i].kind.type = "WallTeleporting"

---------------------------------------------------------------------------
(* Trail sections.  `teleported` is a history flag, not a field of the     *)
(* source: it marks a section that the wall-teleport branch appended.      *)

\* StraightTrailSection::new
StraightTrailSection(start, gp, thick, end) ==
    [type |-> "Straight", start |-> start, gap |-> gp, thickness |-> thick,
     end |-> end, teleported |-> FALSE]

\* ArcTrailSection::new
ArcTrailSection(start_pos, gp, thick, dir, radius, start_angle, end_angle) ==
    [type |-> "Arc", start_pos |-> start_pos, gap |-> gp, thickness |-> thick,
     dir |-> dir, radius |-> radius, player_start_angle |-> start_angle,
     player_end_angle |-> end_angle, teleported |-> FALSE]

\* ArcTrailSection::arc_start_angle
arc_start_angle(s) == s.player_start_angle - FRAC_PI_2 * angle_sign(s.dir)

\* ArcTrailSection::arc_end_angle
arc_end_angle(s) == s.player_end_angle - FRAC_PI_2 * angle_sign(s.dir)

\* ArcTrailSection::end_pos
arc_end_pos(s) ==
    << s.start_pos[1] + (CosQ(arc_end_angle(s)) - CosQ(arc_start_angle(s))) * s.radius,
       s.start_pos[2] + (SinQ(arc_end_angle(s)) - SinQ(arc_start_angle(s))) * s.radius >>

\* ArcTrailSection::center_pos
center_pos(s) ==
    << s.start_pos[1] - CosQ(arc_start_angle(s)) * s.radius,
       s.start_pos[2] - SinQ(arc_start_angle(s)) * s.radius >>

\* TrailSection::dir
section_dir(s) == IF s.type = "Straight" THEN "Straight" ELSE s.dir

\* TrailSection::start_pos
start_pos(s) == IF s.type = "Straight" THEN s.start ELSE s.start_pos

\* TrailSection::end_pos
end_pos(s) == IF s.type = "Straight" THEN s.end ELSE arc_end_pos(s)

Last(seq) == seq[Len(seq)]

SetLast(seq, x) == [seq EXCEPT ![Len(seq)] = x]

---------------------------------------------------------------------------
(* Movement.                                                               *)

\* fn add_trail_section
add_trail_section(p) ==
    IF direction(p) = "Straight"
    THEN LET section == StraightTrailSection(p.pos, gap(p), thickness(p), p.pos)
         IN  [p EXCEPT !.pos = section.end, !.trail = Append(p.trail, section)]
    ELSE LET section == ArcTrailSection(p.pos, gap(p), thickness(p), direction(p),
                                        turning_radius(p), p.angle, p.angle)
         IN  [p EXCEPT !.pos = arc_end_pos(section), !.trail = Append(p.trail, section)]

\* update_trail_section moving the player of a straight section without
\* moving the section's end.
update_trail_section_pos_only(delta_time, p) ==
    LET s == Last(p.trail)
    IN  IF s.type = "Straight"
        THEN [p EXCEPT !.pos = << p.pos[1] + delta_time * speed(p) * CosQ(p.angle),
                                  p.pos[2] + delta_time * speed(p) * SinQ(p.angle) >>]
        ELSE LET s2 == [s EXCEPT !.player_end_angle =
                            s.player_end_angle
                            + ((delta_time * speed(p)) \div s.radius) * angle_sign(s.dir)]
             IN  [p EXCEPT !.trail = SetLast(p.trail, s2), !.pos = arc_end_pos(s2),
                           !.angle = s2.player_end_angle]

\* fn update_trail_section; delta_time is clock.frame_delta in ticks.
update_trail_section(delta_time, p) ==
    LET s == Last(p.trail)
    IN  IF s.type = "Straight"
        THEN LET s2 == [s EXCEPT !.end = << s.end[1] + delta_time * speed(p) * CosQ(p.angle),
                                            s.end[2] + delta_time * speed(p) * SinQ(p.angle) >>]
             IN  [p EXCEPT !.trail = SetLast(p.trail, s2), !.pos = s2.end]
        ELSE LET s2 == [s EXCEPT !.player_end_angle =
                            s.player_end_angle
                            + ((delta_time * speed(p)) \div s.radius) * angle_sign(s.dir)]
             IN  [p EXCEPT !.trail = SetLast(p.trail, s2), !.pos = arc_end_pos(s2),
                           !.angle = s2.player_end_angle]

\* move_player comparing the direction only: a change of gap state, of
\* thickness or of turning radius extends the last section.
move_player_direction_only(delta_time, p) ==
    IF p.trail = << >> THEN add_trail_section(p)
    ELSE update_trail_section(delta_time,
             IF direction(p) # section_dir(Last(p.trail))
             THEN add_trail_section(p) ELSE p)

\* move_player returning after every add_trail_section, not only after the
\* one for the empty trail.
move_player_append_or_extend(delta_time, p) ==
    IF p.trail = << >> THEN add_trail_section(p)
    ELSE LET last_trail == Last(p.trail)
         IN  IF \/ direction(p) # section_dir(last_trail)
                \/ gap(p) # last_trail.gap
                \/ thickness(p) # last_trail.thickness
                \/ (last_trail.type = "Arc" /\ turning_radius(p) # last_trail.radius)
             THEN add_trail_section(p)
             ELSE update_trail_section(delta_time, p)

\* fn move_player
move_player(delta_time, p) ==
    IF p.trail = << >> THEN add_trail_section(p)
    ELSE LET last_trail == Last(p.trail)
             p2 == IF \/ direction(p) # section_dir(last_trail)
                      \/ gap(p) # last_trail.gap
                      \/ thickness(p) # last_trail.thickness
                   THEN add_trail_section(p)
                   ELSE IF last_trail.type = "Arc" /\ turning_radius(p) # last_trail.radius
                        THEN add_trail_section(p)
                        ELSE p
         IN  update_trail_section(delta_time, p2)

---------------------------------------------------------------------------
(* Collision tests.  A probe radius `dist` is passed doubled (dist2).      *)

\* intersects_straight_trailsection testing the two ends only.
intersects_straight_ends(s, pos, dist2) ==
    \/ Lt(distance(s.start, pos), s.thickness + dist2)
    \/ Lt(distance(s.end, pos), s.thickness + dist2)

\* fn intersects_straight_trailsection
intersects_straight_trailsection(s, pos, dist2) ==
    LET p1_dist == distance(s.start, pos)
        p2_dist == distance(s.end, pos)
        max_dist == s.thickness + dist2
    IN  IF Lt(p1_dist, max_dist) \/ Lt(p2_dist, max_dist) THEN TRUE
        ELSE
        LET center_line_angle == angle(s.start, s.end)
            inverse_center_line_angle == (center_line_angle + 2 * PI) % (2 * TAU)
            q == (center_line_angle \div 2) - FRAC_PI_2
            \* the outer line points and the probe, in doubled coordinates
            outer_line_pos_1 == << 2 * s.start[1] + CosQ(q) * max_dist,
                                   2 * s.start[2] + SinQ(q) * max_dist >>
            outer_line_pos_2 == << 2 * s.start[1] - CosQ(q) * max_dist,
                                   2 * s.start[2] - SinQ(q) * max_dist >>
            pos2 == << 2 * pos[1], 2 * pos[2] >>
            end2 == << 2 * s.end[1], 2 * s.end[2] >>
            \* distance() of doubled points is 4 times that of the points
            max_dist_2 == distance(end2, outer_line_pos_1)
        IN  IF 4 * p1_dist > max_dist_2 \/ 4 * p2_dist > max_dist_2 THEN FALSE
            ELSE
            LET angle_l1 == angle(outer_line_pos_1, pos2)
                angle_l2 == angle(outer_line_pos_2, pos2)
            IN  IF center_line_angle < inverse_center_line_angle
                THEN (angle_l1 > center_line_angle /\ angle_l1 < inverse_center_line_angle)
                     # (angle_l2 > center_line_angle /\ angle_l2 < inverse_center_line_angle)
                ELSE (angle_l1 > center_line_angle \/ angle_l1 < inverse_center_line_angle)
                     # (angle_l2 > center_line_angle \/ angle_l2 < inverse_center_line_angle)

\* intersects_arc_trailsection comparing the angle as if the range never
\* wrapped through 0.
intersects_arc_unwrapped(s, pos, dist2) ==
    LET max_dist == s.thickness + dist2
        arc_center_dist == distance(center_pos(s), pos)
        a_start == IF s.dir = "Right" THEN 2 * (arc_start_angle(s) % TAU)
                                      ELSE 2 * (arc_end_angle(s) % TAU)
        a_end == IF s.dir = "Right" THEN 2 * (arc_end_angle(s) % TAU)
                                    ELSE 2 * (arc_start_angle(s) % TAU)
        arc_angle == angle(center_pos(s), pos)
    IN  IF Lt(distance(s.start_pos, pos), max_dist) \/ Lt(distance(arc_end_pos(s), pos), max_dist)
        THEN TRUE
        ELSE IF \/ Lt(arc_center_dist, 2 * s.radius - s.thickness - dist2)
                \/ Gt(arc_center_dist, 2 * s.radius + s.thickness + dist2)
             THEN FALSE
             ELSE arc_angle > a_start /\ arc_angle < a_end

\* fn intersects_arc_trailsection
intersects_arc_trailsection(s, pos, dist2) ==
    LET p1_dist == distance(s.start_pos, pos)
        p2_dist == distance(arc_end_pos(s), pos)
        max_dist == s.thickness + dist2
    IN  IF Lt(p1_dist, max_dist) \/ Lt(p2_dist, max_dist) THEN TRUE
        ELSE
        LET min_dist == 2 * s.radius - s.thickness - dist2
            max_dist_2 == 2 * s.radius + s.thickness + dist2
            arc_center_dist == distance(center_pos(s), pos)
        IN  IF Lt(arc_center_dist, min_dist) \/ Gt(arc_center_dist, max_dist_2) THEN FALSE
            ELSE
            LET a_start == IF s.dir = "Right" THEN 2 * (arc_start_angle(s) % TAU)
                                              ELSE 2 * (arc_end_angle(s) % TAU)
                a_end == IF s.dir = "Right" THEN 2 * (arc_end_angle(s) % TAU)
                                            ELSE 2 * (arc_start_angle(s) % TAU)
                arc_angle == angle(center_pos(s), pos)
            IN  IF a_start <= a_end
                THEN arc_angle > a_start /\ arc_angle < a_end
                ELSE arc_angle > a_start \/ arc_angle < a_end

\* The match arm of intersects_trail for one section, gap test not included.
intersects_section(s, pos, dist2) ==
    IF s.type = "Straight" THEN intersects_straight_trailsection(s, pos, dist2)
    ELSE intersects_arc_trailsection(s, pos, dist2)

\* fn intersects_trail
intersects_trail(pos, dist2, trail) ==
    \E i \in 1..Len(trail) :
        /\ ~trail[i].gap
        /\ intersects_section(trail[i], pos, dist2)

\* The body of the loop of intersects_own_trail for one section.
own_section_hit(p, s) ==
    LET min_dist == thickness(p) + s.thickness
        end_dist == distance(p.pos, end_pos(s))
    IN  \/ /\ Lt(end_dist, min_dist)
           /\ s.type = "Arc"
           /\ Abs(s.player_start_angle - s.player_end_angle) > PI
           /\ Lt(distance(s.start_pos, p.pos), min_dist)
        \/ /\ Gt(end_dist, min_dist)
           /\ intersects_trail(p.pos, thickness(p), << s >>)

\* intersects_own_trail sparing the player only from its most recent
\* section: every older section goes to intersects_trail directly.
intersects_own_trail_last_only(p) ==
    \E i \in 1..Len(p.trail) :
        IF i = Len(p.trail) THEN own_section_hit(p, p.trail[i])
        ELSE intersects_trail(p.pos, thickness(p), << p.trail[i] >>)

\* fn intersects_own_trail
intersects_own_trail(p) == \E i \in 1..Len(p.trail) : own_section_hit(p, p.trail[i])

---------------------------------------------------------------------------
(* The World as a value, and the outcomes of the random draws.             *)

World(st, ck, it, ef, pl, cf, nid) ==
    [state |-> st, clock |-> ck, items |-> it, effects |-> ef, players |-> pl,
     crash_feed |-> cf, next_id |-> nid]

GameState(kind, start) == [kind |-> kind, start |-> start]

\* Player::new
Player(id, name, pos, ang, color) ==
    [id |-> id, name |-> name, trail |-> << >>, pos |-> pos, angle |-> ang,
     color |-> color, effects |-> << >>, local_direction |-> "Straight",
     remote_direction |-> "Straight", just_crashed |-> FALSE, crashed |-> FALSE,
     score |-> 0]

\* Player::reset clearing the score as well.
reset_score(p, pos, ang) ==
    [p EXCEPT !.pos = pos, !.angle = ang, !.effects = << >>, !.trail = << >>,
              !.local_direction = "Straight", !.remote_direction = "Straight",
              !.just_crashed = FALSE, !.crashed = FALSE, !.score = 0]

\* Player::reset
reset(p, pos, ang) ==
    [p EXCEPT !.pos = pos, !.angle = ang, !.effects = << >>, !.trail = << >>,
              !.local_direction = "Straight", !.remote_direction = "Straight",
              !.just_crashed = FALSE, !.crashed = FALSE]

\* The range rng.gen_range(lo..hi) of one coordinate, on the grid.
InRange(v, lo, hi) == lo <= v /\ v < hi

\* fn gen_player_position: the positions it can return, drawing from pts.  A
\* draw is rejected while it is closer than MIN_PLAYER_DIST to another player;
\* when every draw is rejected the last one is returned.
gen_player_position(others, pts) ==
    LET drawn == { q \in pts :
                     /\ InRange(q[1], MIN_PLAYER_WALL_DIST, WORLD_SIZE[1] - MIN_PLAYER_WALL_DIST)
                     /\ InRange(q[2], MIN_PLAYER_WALL_DIST, WORLD_SIZE[2] - MIN_PLAYER_WALL_DIST) }
        free == { q \in drawn :
                    \A i \in 1..Len(others) :
                        ~intersects(q, others[i].pos, 2 * MIN_PLAYER_DIST) }
    IN  IF free # {} THEN free ELSE drawn

\* The colors no other player holds, in palette order.
free_colors(others) ==
    SelectSeq(PLAYER_COLORS, LAMBDA c : \A i \in 1..Len(others) : others[i].color # c)

\* fn random_player: the players it can return, for the given draws.
random_player(id, name, others, sc) ==
    { Player(id, name, pos, ang, free_colors(others)[color_idx + 1]) :
        pos \in gen_player_position(others, sc.pts),
        ang \in sc.angs,
        color_idx \in { c \in sc.color_idx : c < Len(PLAYER_COLORS) - Len(others) } }

\* ItemKind::spawn_rate
spawn_rate(k) ==
    CASE k = "Ghost" -> 1
      [] k = "NoGap" -> 3
      [] k = "Clear" -> 2
      [] OTHER -> 4

RECURSIVE sum_spawn_rates(_)
sum_spawn_rates(i) ==
    IF i > Len(ITEM_KINDS) THEN 0 ELSE spawn_rate(ITEM_KINDS[i]) + sum_spawn_rates(i + 1)

SUM_OF_ITEM_SPAWN_RATES == sum_spawn_rates(1)

\* The cumulative-weight loop comparing with >= where the source has >.
RECURSIVE item_kind_loop_inclusive(_, _, _)
item_kind_loop_inclusive(i, idx, item_kind_idx) ==
    IF i > Len(ITEM_KINDS) THEN << >>
    ELSE LET idx2 == (idx + spawn_rate(ITEM_KINDS[i])) % 256
         IN  IF idx2 >= item_kind_idx THEN << ITEM_KINDS[i] >>
             ELSE item_kind_loop_inclusive(i + 1, idx2, item_kind_idx)

\* The cumulative-weight loop of the spawn step: Some(kind) as <<kind>>,
\* None as << >>.
RECURSIVE item_kind_loop(_, _, _)
item_kind_loop(i, idx, item_kind_idx) ==
    IF i > Len(ITEM_KINDS) THEN << >>
    ELSE LET idx2 == (idx + spawn_rate(ITEM_KINDS[i])) % 256
         IN  IF idx2 > item_kind_idx THEN << ITEM_KINDS[i] >>
             ELSE item_kind_loop(i + 1, idx2, item_kind_idx)

\* fn gen_item_position: the results it can return, drawing from pts: Some(pos)
\* as <<pos>> for a draw that is accepted, None as << >> when draws are
\* rejected.
gen_item_position(pls, its, pts) ==
    LET drawn == { q \in pts :
                     /\ InRange(q[1], MIN_ITEM_WALL_DIST, WORLD_SIZE[1] - MIN_ITEM_WALL_DIST)
                     /\ InRange(q[2], MIN_ITEM_WALL_DIST, WORLD_SIZE[2] - MIN_ITEM_WALL_DIST) }
        ok(q) == /\ \A i \in 1..Len(pls) : ~intersects_trail(q, 2 * MIN_ITEM_DIST, pls[i].trail)
                 /\ \A i \in 1..Len(its) : ~intersects(q, its[i].pos, 2 * MIN_ITEM_DIST)
    IN  { << q >> : q \in { r \in drawn : ok(r) } }
        \cup (IF \E q \in drawn : ~ok(q) THEN { << >> } ELSE {})

---------------------------------------------------------------------------
(* World::update.  The draws of one call are its argument rnd:             *)
(*   rnd.spawn   [hit, item_kind_idx, pos]: hit tells whether the spawn    *)
(*               roll succeeds, pos is the result of gen_item_position     *)
(*               (<<q>> or << >>);                                         *)
(*   rnd.gap[i]  -1 when player i's gap roll fails, else the jitter of     *)
(*               gap_effect;                                               *)
(*   rnd.jitter  the jitter of player_effect / world_effect.               *)

\* Clock::update advancing the clock in every state.
clock_update_always(ck, st) ==
    [now |-> ck.now + UPDATE_TIME, frame_delta |-> UPDATE_TIME]

\* Clock::update adding the previous frame_delta to now before it sets the
\* new one.
clock_update_stale(ck, st) ==
    IF st.kind \in {"Paused", "Stopped"}
    THEN [ck EXCEPT !.frame_delta = 0]
    ELSE [now |-> ck.now + ck.frame_delta, frame_delta |-> UPDATE_TIME]

\* Clock::update
clock_update(ck, st) ==
    IF st.kind \in {"Paused", "Stopped"}
    THEN [ck EXCEPT !.frame_delta = 0]
    ELSE [now |-> ck.now + UPDATE_TIME, frame_delta |-> UPDATE_TIME]

\* The Starting arm laying the first trail section while the player aims.
starting_player_trailing(delta_time, p) ==
    IF direction(p) = "Straight" THEN p
    ELSE add_trail_section(
             [p EXCEPT !.angle = p.angle + ((delta_time * BASE_SPEED) \div BASE_TURNING_RADIUS)
                                           * angle_sign(direction(p))])

\* The Starting arm: the heading follows the input, no trail is laid.
starting_player(delta_time, p) ==
    IF direction(p) = "Straight" THEN p
    ELSE [p EXCEPT !.angle = p.angle + ((delta_time * BASE_SPEED) \div BASE_TURNING_RADIUS)
                                       * angle_sign(direction(p))]

\* The spawn step without the test against MAX_ITEMS.
spawn_items_uncapped(its, spawn) ==
    IF spawn.hit /\ spawn.pos # << >>
    THEN Append(its, [pos |-> spawn.pos[1],
                      kind |-> item_kind_loop(1, 0, spawn.item_kind_idx)[1]])
    ELSE its

\* The spawn step: "// spawn items".
spawn_items(its, spawn) ==
    IF Len(its) < MAX_ITEMS /\ spawn.hit /\ spawn.pos # << >>
    THEN Append(its, [pos |-> spawn.pos[1],
                      kind |-> item_kind_loop(1, 0, spawn.item_kind_idx)[1]])
    ELSE its

\* The first loop without the skip of crashed players.
expire_gap_move_crashed(ck, p, gap_roll) ==
    LET p1 == [p EXCEPT !.effects = retain_active(p.effects, ck.now)]
        p2 == IF ~gap(p1) /\ ~no_gap(p1) /\ gap_roll >= 0
              THEN [p1 EXCEPT !.effects = Append(p1.effects, gap_effect(ck.now, gap_roll))]
              ELSE p1
    IN  move_player(ck.frame_delta, p2)

\* The first loop over the players: expiry, random gap, movement.
expire_gap_move(ck, p, gap_roll) ==
    LET p1 == [p EXCEPT !.effects = retain_active(p.effects, ck.now)]
    IN  IF p1.crashed THEN p1
        ELSE LET p2 == IF ~gap(p1) /\ ~no_gap(p1) /\ gap_roll >= 0
                       THEN [p1 EXCEPT !.effects = Append(p1.effects, gap_effect(ck.now, gap_roll))]
                       ELSE p1
             IN  move_player(ck.frame_delta, p2)

\* add_trail_section as called by the wall-teleport branch.
teleport_section(p) ==
    LET p2 == add_trail_section(p)
    IN  [p2 EXCEPT !.trail = SetLast(p2.trail, [Last(p2.trail) EXCEPT !.teleported = TRUE])]

\* The wall-teleport branch.
teleport(p) ==
    LET px == IF p.pos[1] < 0 THEN teleport_section([p EXCEPT !.pos[1] = WORLD_SIZE[1]])
              ELSE IF p.pos[1] > WORLD_SIZE[1] THEN teleport_section([p EXCEPT !.pos[1] = 0])
              ELSE p
    IN  IF px.pos[2] < 0 THEN teleport_section([px EXCEPT !.pos[2] = WORLD_SIZE[2]])
        ELSE IF px.pos[2] > WORLD_SIZE[2] THEN teleport_section([px EXCEPT !.pos[2] = 0])
        ELSE px

\* The wall test on the center of the player, its thickness left out.
hits_wall_center(p) ==
    \/ p.pos[1] < 0
    \/ p.pos[1] > WORLD_SIZE[1]
    \/ p.pos[2] < 0
    \/ p.pos[2] > WORLD_SIZE[2]

\* The wall test of the branch without teleporting.
hits_wall(p) ==
    \/ 2 * p.pos[1] < thickness(p)
    \/ 2 * p.pos[1] > 2 * WORLD_SIZE[1] - thickness(p)
    \/ 2 * p.pos[2] < thickness(p)
    \/ 2 * p.pos[2] > 2 * WORLD_SIZE[2] - thickness(p)

Crash(time, message) == [time |-> time, message |-> message]

WallMessage(p) == [type |-> "Wall", name |-> p.name, color |-> p.color]

OwnMessage(p) == [type |-> "Own", name |-> p.name, color |-> p.color]

OtherMessage(p, o) ==
    [type |-> "Other", crashed_name |-> p.name, crashed_color |-> p.color,
     other_name |-> o.name, other_color |-> o.color]

\* The cross-player loop restricted to the players that have not crashed.
others_alive(pls, pi) == { i \in 1..Len(pls) : i # pi /\ ~pls[i].crashed }

\* The players whose trails the cross-player loop of player pi tests.
others(pls, pi) == { i \in 1..Len(pls) : i # pi }

\* The cross-player test passing over the trails of the players that have
\* crashed earlier in this tick.
hit_others_standing(pls, pi, p) ==
    { i \in { k \in 1..Len(pls) : k # pi } :
        ~pls[i].just_crashed /\ intersects_trail(p.pos, thickness(p), pls[i].trail) }

\* The indices among others(pls, pi) whose trail player p hits.
hit_others(pls, pi, p) ==
    { i \in others(pls, pi) : intersects_trail(p.pos, thickness(p), pls[i].trail) }

SetMin(S) == CHOOSE x \in S : \A y \in S : x <= y

\* apply_item with the deltas of FastTurning and SlowTurning exchanged.
apply_item_swapped(kind, p, effs, now, jitter) ==
    LET add(type, delta) == Append(p.effects, player_effect(now, jitter, type, delta))
        drop(type) == SelectSeq(p.effects, LAMBDA e : e.kind.type # type)
        pe(new) == [p |-> [p EXCEPT !.effects = new], effects |-> effs, clear |-> FALSE]
    IN  CASE kind = "Speedup" -> pe(add("Speed", 1))
          [] kind = "Slowdown" -> pe(add("Speed", -1))
          [] kind = "FastTurning" -> pe(add("Turning", 1))
          [] kind = "SlowTurning" -> pe(add("Turning", -1))
          [] kind = "Expand" -> pe(add("Size", 2))
          [] kind = "Shrink" -> pe(add("Size", -1))
          [] kind = "Ghost" ->
               pe(Append(drop("NoGap"), player_effect(now, jitter, "Ghost", 0)))
          [] kind = "NoGap" ->
               pe(Append(drop("Gap"), player_effect(now, jitter, "NoGap", 0)))
          [] kind = "WallTeleporting" ->
               [p |-> p, clear |-> FALSE,
                effects |-> Append(effs, world_effect(now, jitter, "WallTeleporting"))]
          [] OTHER -> [p |-> p, effects |-> effs, clear |-> TRUE]

\* apply_item with a NoGap arm that only adds the NoGap effect.
apply_item_keeping_gap(kind, p, effs, now, jitter) ==
    LET add(type, delta) == Append(p.effects, player_effect(now, jitter, type, delta))
        drop(type) == SelectSeq(p.effects, LAMBDA e : e.kind.type # type)
        pe(new) == [p |-> [p EXCEPT !.effects = new], effects |-> effs, clear |-> FALSE]
    IN  CASE kind = "Speedup" -> pe(add("Speed", 1))
          [] kind = "Slowdown" -> pe(add("Speed", -1))
          [] kind = "FastTurning" -> pe(add("Turning", -1))
          [] kind = "SlowTurning" -> pe(add("Turning", 1))
          [] kind = "Expand" -> pe(add("Size", 2))
          [] kind = "Shrink" -> pe(add("Size", -1))
          [] kind = "Ghost" ->
               pe(Append(drop("NoGap"), player_effect(now, jitter, "Ghost", 0)))
          [] kind = "NoGap" -> pe(add("NoGap", 0))
          [] kind = "WallTeleporting" ->
               [p |-> p, clear |-> FALSE,
                effects |-> Append(effs, world_effect(now, jitter, "WallTeleporting"))]
          [] OTHER -> [p |-> p, effects |-> effs, clear |-> TRUE]

\* The effect of one item kind on the player and the world effects.
apply_item(kind, p, effs, now, jitter) ==
    LET add(type, delta) == Append(p.effects, player_effect(now, jitter, type, delta))
        drop(type) == SelectSeq(p.effects, LAMBDA e : e.kind.type # type)
        pe(new) == [p |-> [p EXCEPT !.effects = new], effects |-> effs, clear |-> FALSE]
    IN  CASE kind = "Speedup" -> pe(add("Speed", 1))
          [] kind = "Slowdown" -> pe(add("Speed", -1))
          [] kind = "FastTurning" -> pe(add("Turning", -1))
          [] kind = "SlowTurning" -> pe(add("Turning", 1))
          [] kind = "Expand" -> pe(add("Size", 2))
          [] kind = "Shrink" -> pe(add("Size", -1))
          [] kind = "Ghost" ->
               pe(Append(drop("NoGap"), player_effect(now, jitter, "Ghost", 0)))
          [] kind = "NoGap" ->
               pe(Append(drop("Gap"), player_effect(now, jitter, "NoGap", 0)))
          [] kind = "WallTeleporting" ->
               [p |-> p, clear |-> FALSE,
                effects |-> Append(effs, world_effect(now, jitter, "WallTeleporting"))]
          [] OTHER -> [p |-> p, effects |-> effs, clear |-> TRUE]

RemoveAt(seq, i) == SubSeq(seq, 1, i - 1) \o SubSeq(seq, i + 1, Len(seq))

\* The item loop leaving the scan at the first item it collects.
collect_items_once(p, its, effs, i, clear_trails, now, jitter) ==
    LET hit == { k \in i..Len(its) :
                   intersects(p.pos, its[k].pos, thickness(p) + 2 * ITEM_RADIUS) }
    IN  IF hit = {}
        THEN [p |-> p, items |-> its, effects |-> effs, clear |-> clear_trails]
        ELSE LET k == CHOOSE x \in hit : \A y \in hit : x <= y
                 r == apply_item(its[k].kind, p, effs, now, jitter)
             IN  [p |-> r.p, items |-> RemoveAt(its, k), effects |-> r.effects,
                  clear |-> clear_trails \/ r.clear]

\* The item loop "// collect items" of one player, from index i on.
RECURSIVE collect_items(_, _, _, _, _, _, _)
collect_items(p, its, effs, i, clear_trails, now, jitter) ==
    IF i > Len(its)
    THEN [p |-> p, items |-> its, effects |-> effs, clear |-> clear_trails]
    ELSE IF intersects(p.pos, its[i].pos, thickness(p) + 2 * ITEM_RADIUS)
         THEN LET r == apply_item(its[i].kind, p, effs, now, jitter)
              IN  collect_items(r.p, RemoveAt(its, i), r.effects, i,
                                clear_trails \/ r.clear, now, jitter)
         ELSE collect_items(p, its, effs, i + 1, clear_trails, now, jitter)

\* The trail.clear() of every player after a Clear pickup.
clear_all_trails(pls) == [i \in 1..Len(pls) |-> [pls[i] EXCEPT !.trail = << >>]]

\* "if wall_teleporting { ... } else if <outside> { crash }" for player pi;
\* the result is the player and the crash feed after the step.
check_wall(w, pi, wt) ==
    IF wt THEN [p |-> teleport(w.players[pi]), crash_feed |-> w.crash_feed]
    ELSE IF hits_wall(w.players[pi])
         THEN [p |-> [w.players[pi] EXCEPT !.just_crashed = TRUE],
               crash_feed |-> Append(w.crash_feed,
                                     Crash(w.clock.now, WallMessage(w.players[pi])))]
         ELSE [p |-> w.players[pi], crash_feed |-> w.crash_feed]

\* "if !p.gap() && Self::intersects_own_trail(p) { crash }"
check_own(r, now) ==
    IF ~gap(r.p) /\ intersects_own_trail(r.p)
    THEN [p |-> [r.p EXCEPT !.just_crashed = TRUE],
          crash_feed |-> Append(r.crash_feed, Crash(now, OwnMessage(r.p)))]
    ELSE r

\* The cross-player test made without looking at p.gap().
check_others_in_gap(r, pls, pi, now) ==
    IF hit_others(pls, pi, r.p) # {}
    THEN [p |-> [r.p EXCEPT !.just_crashed = TRUE],
          crash_feed |-> Append(r.crash_feed,
                            Crash(now, OtherMessage(r.p, pls[SetMin(hit_others(pls, pi, r.p))])))]
    ELSE r

\* "if !p.gap() { if let Some(o) = others.find(..) { crash } }"
check_others(r, pls, pi, now) ==
    IF ~gap(r.p) /\ hit_others(pls, pi, r.p) # {}
    THEN [p |-> [r.p EXCEPT !.just_crashed = TRUE],
          crash_feed |-> Append(r.crash_feed,
                            Crash(now, OtherMessage(r.p, pls[SetMin(hit_others(pls, pi, r.p))])))]
    ELSE r

\* The end of one iteration: the collected items leave the world, the player
\* is stored, and a Clear pickup empties every trail.
store_player(w, pi, col, cf) ==
    [w EXCEPT !.players = IF col.clear
                          THEN clear_all_trails([w.players EXCEPT ![pi] = col.p])
                          ELSE [w.players EXCEPT ![pi] = col.p],
              !.items = col.items,
              !.effects = col.effects,
              !.crash_feed = cf]

\* The item loop of player pi, run on the outcome r of the crash tests.
check_items(w, pi, r, jitter) ==
    store_player(w, pi,
                 collect_items(r.p, w.items, w.effects, 1, FALSE, w.clock.now, jitter),
                 r.crash_feed)

\* One iteration of the second loop over the players (index pi): wall or
\* teleport, own trail, other trails, item pickup, trail clearing.
check_player(w, pi, wt, jitter) ==
    IF w.players[pi].crashed THEN w
    ELSE check_items(w, pi,
                     check_others(check_own(check_wall(w, pi, wt), w.clock.now),
                                  w.players, pi, w.clock.now),
                     jitter)

\* The second loop over the players, from index pi on.
RECURSIVE check_players(_, _, _, _)
check_players(w, pi, wt, jitter) ==
    IF pi > Len(w.players) THEN w
    ELSE check_players(check_player(w, pi, wt, jitter), pi + 1, wt, jitter)

\* next_id and score are u16.
U16_RANGE == 65536

\* "if p.just_crashed { p.crashed = true }"
commit_crash(p) == IF p.just_crashed THEN [p EXCEPT !.crashed = TRUE] ELSE p

\* The end of the Running arm awarding the point to every player.
commit_and_score_all(w, start_time) ==
    LET pls == [i \in 1..Len(w.players) |->
                   IF w.players[i].just_crashed
                   THEN [w.players[i] EXCEPT !.crashed = TRUE] ELSE w.players[i]]
        num_alive_players == Cardinality({ i \in 1..Len(pls) : ~pls[i].just_crashed })
    IN  IF num_alive_players < 2
        THEN [w EXCEPT !.players = [i \in 1..Len(pls) |->
                                       [pls[i] EXCEPT !.score = pls[i].score + 1]],
                       !.state = [kind |-> "Stopped", start |-> start_time]]
        ELSE [w EXCEPT !.players = pls]

\* The end of the Running arm stopping the round only when nobody is left.
commit_and_score_until_none(w, start_time) ==
    LET pls == [i \in 1..Len(w.players) |-> commit_crash(w.players[i])]
        num_alive_players == Cardinality({ i \in 1..Len(pls) : ~pls[i].just_crashed })
    IN  IF num_alive_players < 1
        THEN [w EXCEPT !.players = pls, !.state = GameState("Stopped", start_time)]
        ELSE [w EXCEPT !.players = pls]

\* The end of the Running arm: commit the crashes, count, score, stop.
\* "p.score += 1" wraps in a build without overflow checks.
commit_and_score(w, start_time) ==
    LET pls == [i \in 1..Len(w.players) |-> commit_crash(w.players[i])]
        num_alive_players == Cardinality({ i \in 1..Len(pls) : ~pls[i].just_crashed })
    IN  IF num_alive_players < 2
        THEN [w EXCEPT !.players = [i \in 1..Len(pls) |->
                                       IF ~pls[i].crashed
                                       THEN [pls[i] EXCEPT !.score =
                                                (pls[i].score + 1) % U16_RANGE]
                                       ELSE pls[i]],
                       !.state = GameState("Stopped", start_time)]
        ELSE [w EXCEPT !.players = pls]

\* The Running arm, after the clock has advanced.
running_tick(w, rnd) ==
    LET effs == retain_active(w.effects, w.clock.now)
        its == spawn_items(w.items, rnd.spawn)
        pls == [i \in 1..Len(w.players) |->
                   expire_gap_move(w.clock, w.players[i], rnd.gap[i])]
        w1 == [w EXCEPT !.effects = effs, !.items = its, !.players = pls]
        w2 == check_players(w1, 1, wall_teleporting(effs), rnd.jitter)
    IN  commit_and_score(w2, w.state.start)

\* The Starting arm leaving Starting as soon as the delay has elapsed.
starting_tick_eager(w) ==
    LET pls == [i \in 1..Len(w.players) |->
                   starting_player(w.clock.frame_delta, w.players[i])]
    IN  [w EXCEPT !.players = pls,
                  !.state = IF w.clock.now >= w.state.start + START_DELAY
                            THEN GameState("Running", w.clock.now)
                            ELSE w.state]

\* The Starting arm, after the clock has advanced.
starting_tick(w) ==
    LET pls == [i \in 1..Len(w.players) |->
                   starting_player(w.clock.frame_delta, w.players[i])]
    IN  [w EXCEPT !.players = pls,
                  !.state = IF w.clock.now > w.state.start + START_DELAY
                            THEN GameState("Running", w.clock.now)
                            ELSE w.state]

\* World::update
update(w, rnd) ==
    LET w1 == [w EXCEPT !.clock = clock_update(w.clock, w.state)]
    IN  CASE w.state.kind = "Starting" -> starting_tick(w1)
          [] w.state.kind = "Running" -> running_tick(w1, rnd)
          [] OTHER -> w1

\* toggle_pause stamping the resumed round with the current time.
toggle_pause_restamp(w) ==
    CASE w.state.kind = "Running" -> [w EXCEPT !.state = GameState("Paused", w.state.start)]
      [] w.state.kind = "Paused" -> [w EXCEPT !.state = GameState("Running", w.clock.now)]
      [] OTHER -> w

\* World::toggle_pause
toggle_pause(w) ==
    CASE w.state.kind = "Running" -> [w EXCEPT !.state = GameState("Paused", w.state.start)]
      [] w.state.kind = "Paused" -> [w EXCEPT !.state = GameState("Running", w.state.start)]
      [] OTHER -> w

\* The loop of restart: player i is reset with draws[i] = [pos, angle].
restart_players(pls, draws) ==
    [i \in 1..Len(pls) |-> reset(pls[i], draws[i].pos, draws[i].angle)]

\* restart without the test for Stopped.
restart_unguarded(w, draws) ==
    [w EXCEPT !.state = GameState("Starting", w.clock.now),
              !.items = << >>,
              !.effects = << >>,
              !.crash_feed = << >>,
              !.players = restart_players(w.players, draws)]

\* restart accepting a paused round as well as a stopped one.
restart_paused(w, draws) ==
    IF w.state.kind \in {"Stopped", "Paused"}
    THEN [w EXCEPT !.state = GameState("Starting", w.clock.now),
                   !.items = << >>,
                   !.effects = << >>,
                   !.crash_feed = << >>,
                   !.players = restart_players(w.players, draws)]
    ELSE w

\* World::restart
restart(w, draws) ==
    IF w.state.kind = "Stopped"
    THEN [w EXCEPT !.state = GameState("Starting", w.clock.now),
                   !.items = << >>,
                   !.effects = << >>,
                   !.crash_feed = << >>,
                   !.players = restart_players(w.players, draws)]
    ELSE w

\* World::add_player with World::next_id; the new player is the draw np.
\* "self.next_id += 1" wraps in a build without overflow checks.
add_player(w, np) ==
    IF Len(w.players) >= Len(PLAYER_COLORS) THEN w
    ELSE [w EXCEPT !.next_id = (w.next_id + 1) % U16_RANGE,
                   !.players = Append(w.players, np)]

\* "self.next_id += 1" panics in a build with overflow checks when next_id
\* is u16::MAX.
add_player_panics(w) ==
    Len(w.players) < Len(PLAYER_COLORS) /\ w.next_id = U16_RANGE - 1

\* fn find_player: the index of the first player with the id, 0 for None.
find_player(pls, player_id) ==
    IF \E i \in 1..Len(pls) : pls[i].id = player_id
    THEN CHOOSE i \in 1..Len(pls) :
            /\ pls[i].id = player_id
            /\ \A j \in 1..(i - 1) : pls[j].id # player_id
    ELSE 0

\* remove_player without the floor of two players.
remove_player_unfloored(w, idx) ==
    IF Len(w.players) > 0 THEN [w EXCEPT !.players = RemoveAt(w.players, idx + 1)]
    ELSE w

\* World::remove_player, for an index inside the list (0-based idx).
remove_player(w, idx) ==
    IF Len(w.players) > 2 THEN [w EXCEPT !.players = RemoveAt(w.players, idx + 1)]
    ELSE w

\* Vec::remove panics for an index that is not inside the list; remove_player
\* reaches it whenever more than two players exist.
remove_player_panics(w, idx) == Len(w.players) > 2 /\ idx >= Len(w.players)

\* The discriminant of a PlayerColor (Orange = 0, ...), as a palette index.
color_index(c) == CHOOSE i \in 0..(Len(PLAYER_COLORS) - 1) : PLAYER_COLORS[i + 1] = c

\* PlayerColor::prev
prev(c) == PLAYER_COLORS[((color_index(c) - 1) % Len(PLAYER_COLORS)) + 1]

\* PlayerColor::next
next(c) == PLAYER_COLORS[((color_index(c) + 1) % Len(PLAYER_COLORS)) + 1]

---------------------------------------------------------------------------
(* Bounds and the sets the draws and inputs are taken from.                *)

\* update() advances the clock only while clock.now < MaxNow.
MaxNow == 7

(* A scenario bounds the draws of the random number generator and the      *)
(* inputs of the users:                                                    *)
(*   pts, angs, color_idx   the draws of gen_player_position, of the       *)
(*                          heading and of the color index;                *)
(*   max_players, max_id    add_player is called with fewer players and a  *)
(*                          smaller next_id only;                          *)
(*   round_sizes            Space is pressed with these player counts;     *)
(*   menu_in                the game states in which the player menu is    *)
(*                          used;                                          *)
(*   remove_at, remove_idx  the ticks at which a player is removed, and    *)
(*                          the index selected in the menu;                *)
(*   dirs[i]                the directions the keys of player i produce;   *)
(*   keys_at                the ticks (clock.now) at which keys change;    *)
(*   pause_at               the ticks at which Escape is pressed;          *)
(*   add_at                 the ticks at which a player is added;          *)
(*   idle_at                the ticks at which update() is followed while  *)
(*                          the clock stands (Paused, Stopped);            *)
(*   gap_at, gap_of, gap    the ticks at which and the players (by index)  *)
(*                          for which a gap roll can succeed, and the      *)
(*                          jitters of gap_effect;                         *)
(*   spawn_at, spawns       the ticks at which the spawn roll can succeed, *)
(*                          and the draws of item_kind_idx together with   *)
(*                          the position gen_item_position samples;        *)
(*   jitter                 the jitters of player_effect / world_effect.   *)

\* Spec: a local game of two players at the keyboard.
ScMain ==
    [pts |-> { <<2, 2>>, <<6, 2>> },
     angs |-> { 0, 2 },
     color_idx |-> { 0 },
     max_players |-> 3,
     max_id |-> 3,
     round_sizes |-> { 2 },
     menu_in |-> { "Stopped" },
     add_at |-> { 5 },
     remove_at |-> { 5 },
     remove_idx |-> { 2 },
     dirs |-> << Direction, {"Straight", "Right"}, {"Straight"} >>,
     keys_at |-> 2..MaxNow,
     pause_at |-> { 0, 1, 3 },
     idle_at |-> { 0, 3, 4 },
     gap_at |-> { 4 },
     gap_of |-> { 1 },
     gap |-> { 0 },
     spawn_at |-> { 3 },
     spawns |-> { [item_kind_idx |-> 28, pos |-> <<2, 2>>],
                  [item_kind_idx |-> 32, pos |-> <<4, 2>>] },
     jitter |-> { 0, 1 }]

NoSpawn == [hit |-> FALSE, item_kind_idx |-> 0, pos |-> << >>]

\* The draws update() can make in world w.
Rnds(w, sc) ==
    IF w.state.kind # "Running"
    THEN { [spawn |-> NoSpawn, gap |-> [i \in 1..Len(w.players) |-> -1], jitter |-> 0] }
    ELSE
    LET now == w.clock.now + UPDATE_TIME
        spawns == { NoSpawn } \cup
                  (IF Len(w.items) < MAX_ITEMS /\ now \in sc.spawn_at
                   THEN UNION { { [hit |-> TRUE, item_kind_idx |-> sp.item_kind_idx, pos |-> q] :
                                    q \in gen_item_position(w.players, w.items, { sp.pos }) } :
                                sp \in sc.spawns }
                   ELSE {})
        rolls(i) == LET p1 == [w.players[i] EXCEPT
                                 !.effects = retain_active(w.players[i].effects, now)]
                    IN  IF /\ ~p1.crashed /\ ~gap(p1) /\ ~no_gap(p1)
                           /\ now \in sc.gap_at /\ i \in sc.gap_of
                        THEN { -1 } \cup sc.gap ELSE { -1 }
        gaps == { g \in [1..Len(w.players) -> { -1, 0, 1 }] :
                    \A i \in 1..Len(w.players) : g[i] \in rolls(i) }
    IN  { [spawn |-> sp, gap |-> g, jitter |-> j] :
            sp \in spawns, g \in gaps,
            j \in (IF w.items = << >> /\ now \notin sc.spawn_at THEN { 0 } ELSE sc.jitter) }

\* The draws restart() can make for the players from index i on, given the
\* players before i as already reset.
RECURSIVE RestartDraws(_, _, _)
RestartDraws(pls, i, sc) ==
    IF i > Len(pls) THEN { << >> }
    ELSE UNION { { << [pos |-> q, angle |-> a] >> \o rest :
                     rest \in RestartDraws([pls EXCEPT ![i] = reset(pls[i], q, a)], i + 1, sc) } :
                 q \in gen_player_position(SubSeq(pls, 1, i - 1), sc.pts), a \in sc.angs }

---------------------------------------------------------------------------
(* The state machine.                                                      *)

W == World(state, clock, items, effects, players, crash_feed, next_id)

Become(w) ==
    /\ state' = w.state
    /\ clock' = w.clock
    /\ items' = w.items
    /\ effects' = w.effects
    /\ players' = w.players
    /\ crash_feed' = w.crash_feed
    /\ next_id' = w.next_id

\* World::new
InitWorld(sc) ==
    /\ \E p1 \in random_player(0, 1, << >>, sc) :
         \E p2 \in random_player(1, 2, << p1 >>, sc) :
            players = << p1, p2 >>
    /\ next_id = 2
    /\ clock = [now |-> 0, frame_delta |-> 0]
    /\ state = GameState("Stopped", 0)
    /\ items = << >>
    /\ effects = << >>
    /\ crash_feed = << >>

\* One iteration of the background loop: world.update().
Update(sc) ==
    /\ IF state.kind \in {"Starting", "Running"}
       THEN clock.now < MaxNow ELSE clock.now \in sc.idle_at
    /\ \E rnd \in Rnds(W, sc) : Become(update(W, rnd))
    /\ UNCHANGED t

\* Key::Escape in the home menu: world.toggle_pause().
TogglePause(sc) ==
    /\ clock.now \in sc.pause_at
    /\ Become(toggle_pause(W))
    /\ UNCHANGED t

\* Key::Space in the home menu: world.restart().
Restart(sc) ==
    /\ Len(players) \in sc.round_sizes
    /\ \E draws \in RestartDraws(players, 1, sc) : Become(restart(W, draws))
    /\ UNCHANGED t

\* Key::Equals in the player menu: world.add_player().
AddPlayer(sc) ==
    /\ state.kind \in sc.menu_in
    /\ Len(players) < sc.max_players
    /\ next_id < sc.max_id
    /\ clock.now \in sc.add_at
    /\ \E np \in random_player(next_id, Len(players) + 1, players, sc) :
         Become(add_player(W, np))
    /\ UNCHANGED t

\* Key::Minus in the player menu: world.remove_player(player_index).
RemovePlayer(sc) ==
    /\ state.kind \in sc.menu_in
    /\ clock.now \in sc.remove_at
    /\ \E idx \in sc.remove_idx \cap 0..(Len(players) - 1) : Become(remove_player(W, idx))
    /\ UNCHANGED t

\* The home menu reads the keys of every player.
Input(sc) ==
    /\ state.kind \in {"Starting", "Running"}
    /\ clock.now \in sc.keys_at
    /\ \E d \in [1..Len(players) -> Direction] :
         /\ \A i \in 1..Len(players) : d[i] \in sc.dirs[i]
         /\ Become([W EXCEPT !.players =
                      [i \in 1..Len(players) |-> [players[i] EXCEPT !.local_direction = d[i]]]])
    /\ UNCHANGED t

InitSc(sc) ==
    /\ InitWorld(sc)
    /\ t = "none"

NextSc(sc) ==
    \/ Update(sc)
    \/ TogglePause(sc)
    \/ Restart(sc)
    \/ AddPlayer(sc)
    \/ RemovePlayer(sc)
    \/ Input(sc)

Init == InitSc(ScMain)

Next == NextSc(ScMain)

Spec == Init /\ [][Next]_vars

\* Spec3: a local game of three players; the third joins before the first
\* round.
Sc3 ==
    [pts |-> { <<2, 2>>, <<6, 2>>, <<6, 5>> },
     angs |-> { 2 },
     color_idx |-> { 0 },
     max_players |-> 3,
     max_id |-> 3,
     round_sizes |-> { 3 },
     menu_in |-> { "Stopped" },
     add_at |-> { 0 },
     remove_at |-> { 0 },
     remove_idx |-> { 2 },
     dirs |-> << {"Straight", "Left"}, {"Straight", "Right"}, {"Straight"} >>,
     keys_at |-> 2..MaxNow,
     pause_at |-> { 0, 1, 3 },
     idle_at |-> { 0, 3, 4 },
     gap_at |-> { 3 },
     gap_of |-> { 1 },
     gap |-> { 0, 1 },
     spawn_at |-> { 3 },
     spawns |-> { [item_kind_idx |-> 0, pos |-> <<4, 5>>] },
     jitter |-> { 0, 1 }]

Init3 == InitSc(Sc3)

Next3 == NextSc(Sc3)

Spec3 == Init3 /\ [][Next3]_vars

---------------------------------------------------------------------------
(* Observations of a step that the properties below share.                 *)

\* A step of update() that advances the clock.
Tick == clock'.now = clock.now + UPDATE_TIME

\* A step of update() in the Running arm.
RunningTick == state.kind = "Running" /\ Tick

\* The crash records a step appends.
NewCrashes == { crash_feed'[k] : k \in (Len(crash_feed) + 1)..Len(crash_feed') }

\* The name of the player a crash record reports as crashed.
CrashedName(c) ==
    IF c.message.type = "Other" THEN c.message.crashed_name ELSE c.message.name

Uncrashed(pls) == { i \in 1..Len(pls) : ~pls[i].crashed }

Range(seq) == { seq[i] : i \in 1..Len(seq) }

Expired(e, now) == e.start + e.duration <= now

\* update() drawing nothing: no spawn, no gap.
NoRnd(w) == [spawn |-> NoSpawn, gap |-> [i \in 1..Len(w.players) |-> -1], jitter |-> 0]

Outside(pos) ==
    \/ pos[1] < 0 \/ pos[1] > WORLD_SIZE[1]
    \/ pos[2] < 0 \/ pos[2] > WORLD_SIZE[2]

---------------------------------------------------------------------------
(* Properties.                                                             *)

\* C1: in a Running tick, if fewer than 2 players are un-crashed after the
\* crashes are committed, the state becomes Stopped with the round's start
\* time, every un-crashed player's score grows by exactly 1 and no crashed
\* player's score changes; if at least 2 players remain un-crashed, the state
\* stays Running and no score changes.
C1_RoundTermination ==
    [][RunningTick =>
         /\ Len(players') = Len(players)
         /\ IF Cardinality(Uncrashed(players')) < 2
            THEN /\ state' = [kind |-> "Stopped", start |-> state.start]
                 /\ \A i \in 1..Len(players) :
                        players'[i].score =
                            players[i].score + (IF players'[i].crashed THEN 0 ELSE 1)
            ELSE /\ state' = state
                 /\ \A i \in 1..Len(players) : players'[i].score = players[i].score]_vars

\* A round of three players that stopped with one survivor, who got the point.
C1_Witness ==
    /\ state.kind = "Stopped"
    /\ Len(players) = 3
    /\ Cardinality(Uncrashed(players)) = 1
    /\ \A i \in 1..3 : players[i].score = (IF players[i].crashed THEN 0 ELSE 1)

\* C2: the world starts Stopped; the state variant changes only along
\* Stopped->Starting (restart), Starting->Running (update), Running->Paused
\* and Paused->Running (toggle_pause), Running->Stopped (update); and
\* toggle_pause() in Starting or Stopped leaves the world unchanged.
C2_StateEdges ==
    /\ state.kind = "Stopped"
    /\ [][state'.kind # state.kind =>
            \/ /\ state.kind = "Stopped" /\ state'.kind = "Starting"
               /\ clock' = clock /\ state'.start = clock.now
            \/ /\ state.kind = "Starting" /\ state'.kind = "Running"
               /\ Tick
            \/ /\ state.kind = "Running" /\ state'.kind = "Paused"
               /\ UNCHANGED <<clock, items, effects, players, crash_feed, next_id>>
            \/ /\ state.kind = "Paused" /\ state'.kind = "Running"
               /\ UNCHANGED <<clock, items, effects, players, crash_feed, next_id>>
            \/ /\ state.kind = "Running" /\ state'.kind = "Stopped"
               /\ Tick]_vars
    /\ [](state.kind \in {"Starting", "Stopped"} => toggle_pause(W) = W)

\* A second round has been started after the first one ran and stopped.
C2_Witness ==
    /\ state.kind = "Starting"
    /\ state.start > 0
    /\ \E i \in 1..Len(players) : players[i].score > 0

\* The world with its players stored in the order f, and the draws of the
\* players reordered with them.
Perms(n) == { f \in [1..n -> 1..n] : \A a, b \in 1..n : f[a] = f[b] => a = b }

Permute(w, f) == [w EXCEPT !.players = [k \in 1..Len(w.players) |-> w.players[f[k]]]]

PermuteRnd(rnd, f) == [rnd EXCEPT !.gap = [k \in DOMAIN rnd.gap |-> rnd.gap[f[k]]]]

\* C3: within one Running tick, which players end the tick crashed does not
\* depend on the order in which the players are stored: the same world with
\* the same draws and the players permuted gives every player the same
\* crashed flag.
C3_OrderIndependence ==
    state.kind = "Running" =>
        \A rnd \in Rnds(W, ScMain) :
            \A f \in Perms(Len(players)) :
                LET a == update(W, rnd)
                    b == update(Permute(W, f), PermuteRnd(rnd, f))
                IN  \A k \in 1..Len(players) :
                        b.players[k].crashed = a.players[f[k]].crashed

\* C4: after any step no effect list holds an effect with
\* start + duration <= now, and a Running tick keeps, in the world's list and
\* in every player's list (crashed players included), every effect with
\* start + duration > now, but for the Gap / NoGap effects that a NoGap / Ghost
\* pickup of the same tick drops.
C4_EffectExpiry ==
    /\ [](/\ \A e \in Range(effects) : ~Expired(e, clock.now)
          /\ \A i \in 1..Len(players) :
                \A e \in Range(players[i].effects) : ~Expired(e, clock.now))
    /\ [][RunningTick =>
            /\ { e \in Range(effects) : ~Expired(e, clock'.now) } \subseteq Range(effects')
            /\ \A i \in 1..Len(players) :
                  LET picked(type) == \E f \in Range(players'[i].effects) :
                                          f.kind.type = type /\ f.start = clock'.now
                      dropped(e) == \/ e.kind.type = "NoGap" /\ picked("Ghost")
                                    \/ e.kind.type = "Gap" /\ picked("NoGap")
                  IN  { e \in Range(players[i].effects) :
                          ~Expired(e, clock'.now) /\ ~dropped(e) }
                      \subseteq Range(players'[i].effects)]_vars

\* A crashed player holds an effect that the next tick lets expire.
C4_Witness ==
    /\ state.kind = "Running"
    /\ clock.now < MaxNow
    /\ \E i \in 1..Len(players) :
          /\ players[i].crashed
          /\ players[i].effects # << >>
          /\ update(W, NoRnd(W)).players[i].effects = << >>

\* C5: for every player and every adjacent pair of sections of its trail, the
\* end position of the first is the start position of the second, unless the
\* wall-teleport branch appended the second.
C5_TrailContiguity ==
    \A i \in 1..Len(players) :
        \A k \in 1..(Len(players[i].trail) - 1) :
            \/ end_pos(players[i].trail[k]) = start_pos(players[i].trail[k + 1])
            \/ players[i].trail[k + 1].teleported

\* A trail with a section that moved, a section that follows it where it
\* ended, and a section that a teleport started elsewhere.
C5_Witness ==
    \E i \in 1..Len(players) :
        LET tr == players[i].trail
        IN  /\ Len(tr) >= 3
            /\ start_pos(tr[1]) # end_pos(tr[1])
            /\ ~tr[2].teleported
            /\ \E k \in 2..(Len(tr) - 1) :
                  tr[k + 1].teleported /\ end_pos(tr[k]) # start_pos(tr[k + 1])

---------------------------------------------------------------------------
(* SpecGap: the collision tests applied to one gap-flagged section.  The   *)
(* unit under test t holds a player with a one-section trail and the       *)
(* result of the last test.                                                *)

\* Probe positions are the grid points 0..MaxCoord x 0..MaxCoord.
MaxCoord == 8

\* Arcs sweep 0..MaxSweep quarter turns.
MaxSweep == 4

GapSections ==
    { StraightTrailSection(<<2, 2>>, TRUE, BASE_THICKNESS, e) :
        e \in { <<2, 2>>, <<6, 2>>, <<2, 6>> } }
    \cup
    { ArcTrailSection(<<4, 4>>, TRUE, BASE_THICKNESS, d, BASE_TURNING_RADIUS,
                      0, n * angle_sign(d)) :
        d \in {"Right", "Left"}, n \in 0..MaxSweep }

InitGap ==
    /\ state = GameState("Stopped", 0)
    /\ clock = [now |-> 0, frame_delta |-> 0]
    /\ items = << >>
    /\ effects = << >>
    /\ players = << >>
    /\ crash_feed = << >>
    /\ next_id = 0
    /\ \E pos \in (0..MaxCoord) \X (0..MaxCoord), s \in GapSections :
          t = [player |-> [Player(0, 1, pos, 0, PLAYER_COLORS[1]) EXCEPT !.trail = << s >>],
               test |-> "none", hit |-> FALSE]

\* intersects_own_trail of the player against its own trail.
ProbeOwn ==
    /\ t.test = "none"
    /\ t' = [t EXCEPT !.test = "own", !.hit = intersects_own_trail(t.player)]
    /\ UNCHANGED world_vars

\* intersects_trail as the cross-player loop calls it, probing the trail
\* from the player's position.
ProbeCross ==
    /\ t.test = "none"
    /\ t' = [t EXCEPT !.test = "cross",
                      !.hit = intersects_trail(t.player.pos, thickness(t.player),
                                               t.player.trail)]
    /\ UNCHANGED world_vars

\* gen_item_position drawing the player's position against its trail.
ProbeItem ==
    /\ t.test = "none"
    /\ t' = [t EXCEPT !.test = "item",
                      !.hit = << >> \in gen_item_position(<< t.player >>, << >>,
                                                          { t.player.pos })]
    /\ UNCHANGED world_vars

NextGap == ProbeOwn \/ ProbeCross \/ ProbeItem

SpecGap == InitGap /\ [][NextGap]_vars

\* C6: no collision test reports a hit because of a gap-flagged section:
\* neither the cross-player test, nor the own-trail test, nor the
\* item-placement test, whatever the probe position, the section's shape and
\* its swept angle.
C6_GapTransparency == t.test # "none" => ~t.hit

---------------------------------------------------------------------------

\* C7: in a Running tick with a WallTeleporting effect active, no Wall crash
\* is recorded, every non-crashed player ends inside the arena, and one whose
\* x or y left the arena sits on the opposite edge with a new trail section
\* starting there; with no WallTeleporting effect active, every non-crashed
\* player closer than half its thickness to an edge, or beyond it, is marked
\* crashed and a Wall crash is recorded for it.
C7_WallHandling ==
    [][RunningTick =>
         \A i \in 1..Len(players) :
            ~players[i].crashed =>
                LET m == expire_gap_move(clock', players[i], -1)
                    x == m.pos[1]
                    y == m.pos[2]
                    q == players'[i]
                IN  IF wall_teleporting(retain_active(effects, clock'.now))
                    THEN /\ \A c \in NewCrashes : c.message.type # "Wall"
                         /\ q.pos[1] = (IF x < 0 THEN WORLD_SIZE[1]
                                        ELSE IF x > WORLD_SIZE[1] THEN 0 ELSE x)
                         /\ q.pos[2] = (IF y < 0 THEN WORLD_SIZE[2]
                                        ELSE IF y > WORLD_SIZE[2] THEN 0 ELSE y)
                         /\ Outside(m.pos) =>
                               \/ q.trail = << >>
                               \/ /\ Len(q.trail) > Len(m.trail)
                                  /\ start_pos(Last(q.trail)) = q.pos
                    ELSE (\/ 2 * x < thickness(m)
                          \/ 2 * x > 2 * WORLD_SIZE[1] - thickness(m)
                          \/ 2 * y < thickness(m)
                          \/ 2 * y > 2 * WORLD_SIZE[2] - thickness(m)) =>
                             /\ q.crashed
                             /\ \E c \in NewCrashes :
                                   c.message.type = "Wall" /\ c.message.name = q.name]_vars

\* A player that left the arena was carried to the opposite edge, where its
\* last section starts, and no crash is on record; the effect is still active.
C7_Witness ==
    /\ state.kind = "Running"
    /\ wall_teleporting(effects)
    /\ crash_feed = << >>
    /\ \E i \in 1..Len(players) :
          /\ players[i].trail # << >>
          /\ Last(players[i].trail).teleported
          /\ start_pos(Last(players[i].trail)) = players[i].pos
          /\ players[i].pos[1] = WORLD_SIZE[1]

\* C8, as amended: a player that was crashed at the start of a Running tick
\* is not moved and not checked again (it stays crashed where it is, and no
\* new crash record reports it), but its trail stays in the arena: a living
\* player that is not in a gap and ends the tick on the unchanged trail of a
\* crashed player is marked crashed.
C8_CrashedPlayers ==
    [][RunningTick =>
         /\ \A j \in 1..Len(players) :
               players[j].crashed =>
                   /\ players'[j].crashed
                   /\ players'[j].pos = players[j].pos
                   /\ players'[j].trail \in { players[j].trail, << >> }
                   /\ \A c \in NewCrashes : CrashedName(c) # players[j].name
         /\ \A i, j \in 1..Len(players) :
               (/\ i # j
                /\ ~players[i].crashed
                /\ players[j].crashed
                /\ players'[i].trail # << >>
                /\ ~Last(players'[i].trail).gap
                /\ players'[j].trail = players[j].trail
                /\ intersects_trail(players'[i].pos, Last(players'[i].trail).thickness,
                                    players[j].trail))
               => players'[i].crashed]_vars

\* A living player was recorded as crashed into the trail of a player that
\* had crashed in an earlier tick.
C8_Witness ==
    \E k, m \in 1..Len(crash_feed) :
        /\ crash_feed[k].message.type = "Other"
        /\ CrashedName(crash_feed[m]) = crash_feed[k].message.other_name
        /\ crash_feed[m].time < crash_feed[k].time
        /\ Len(players) = 3

\* C8, as stated: no living player is marked crashed (Other) because of the
\* trail of a player that had crashed before the tick: every Other record
\* names a player that had no crash on record at an earlier time.
C8_CrashedTrailsInert ==
    \A k, m \in 1..Len(crash_feed) :
        (/\ crash_feed[k].message.type = "Other"
         /\ CrashedName(crash_feed[m]) = crash_feed[k].message.other_name)
        => crash_feed[m].time >= crash_feed[k].time

\* The trails (gap flags included), positions and crashed flags of a world.
Outcome(w) ==
    [i \in 1..Len(w.players) |->
        [trail |-> w.players[i].trail, pos |-> w.players[i].pos,
         crashed |-> w.players[i].crashed]]

\* Two draws with the same spawn and the same outcomes of the gap rolls.
SameRolls(r1, r2) ==
    /\ r1.spawn = r2.spawn
    /\ \A i \in DOMAIN r1.gap : (r1.gap[i] >= 0) = (r2.gap[i] >= 0)

C10_PausePreservesStart ==
    [][/\ (state.kind = "Running" /\ state'.kind = "Paused") =>
              /\ state'.start = state.start
              /\ clock'.now = clock.now
       /\ state.kind = "Paused" =>
              /\ state'.kind \in {"Paused", "Running"}
              /\ state'.start = state.start
              /\ clock'.now = clock.now]_vars

\* A round that was paused, saw update() while paused, and was resumed.
C10_Witness ==
    /\ state.kind = "Running"
    /\ clock.frame_delta = 0
    /\ clock.now > state.start

---------------------------------------------------------------------------
(* update() while nothing is simulated.                                    *)

\* w2 differs from w1 at most in clock.frame_delta.
SameButFrameDelta(w1, w2) ==
    /\ w2.state = w1.state
    /\ w2.players = w1.players
    /\ w2.items = w1.items
    /\ w2.effects = w1.effects
    /\ w2.crash_feed = w1.crash_feed
    /\ w2.next_id = w1.next_id
    /\ w2.clock.now = w1.clock.now

\* C11: update() called while the state is Paused or Stopped leaves the
\* state, every player, the items, the world effects, the crash feed and
\* clock.now as they are, whatever the random draws.
C11_IdleUpdate ==
    state.kind \in {"Paused", "Stopped"} =>
        \A rnd \in Rnds(W, ScMain) : SameButFrameDelta(W, update(W, rnd))

\* A paused round in which update() has been called since the pause (the
\* frame delta is zero) while a trail, and so a running round, exists.
C11_Witness ==
    /\ state.kind = "Paused"
    /\ clock.frame_delta = 0
    /\ clock.now > state.start
    /\ \E i \in 1..Len(players) : players[i].trail # << >>

---------------------------------------------------------------------------
(* The start delay.                                                        *)

\* A step of update() in Starting.
StartingTick == state.kind = "Starting" /\ Tick

---------------------------------------------------------------------------
(* restart().                                                              *)

\* Player q is player p made ready for a new round.
ReadyAgain(p, q) ==
    /\ q.trail = << >>
    /\ q.effects = << >>
    /\ ~q.crashed
    /\ ~q.just_crashed
    /\ q.id = p.id
    /\ q.name = p.name
    /\ q.color = p.color
    /\ q.score = p.score

\* World w2 is world w1 after a restart.
Restarted(w1, w2) ==
    /\ w2.state = GameState("Starting", w1.clock.now)
    /\ w2.items = << >>
    /\ w2.effects = << >>
    /\ w2.crash_feed = << >>
    /\ Len(w2.players) = Len(w1.players)
    /\ \A i \in 1..Len(w1.players) : ReadyAgain(w1.players[i], w2.players[i])

\* C13: restart() called in Stopped sets the state to Starting(clock.now),
\* empties the items, the world effects and the crash feed, and gives every
\* player an empty trail, no effects and crashed = just_crashed = false; the
\* number of players and each player's id, name, color and score stay.
C13_Restart ==
    state.kind = "Stopped" =>
        \A draws \in RestartDraws(players, 1, ScMain) : Restarted(W, restart(W, draws))

\* A second or later round has just been started by restart(): the state is
\* Starting stamped with the current clock, a score of an earlier round is
\* still there, and the world has been emptied.
C13_Witness ==
    /\ state.kind = "Starting"
    /\ state.start = clock.now
    /\ state.start > 0
    /\ \E i \in 1..Len(players) : players[i].score > 0
    /\ \A i \in 1..Len(players) : players[i].trail = << >> /\ ~players[i].crashed
    /\ crash_feed = << >>

---------------------------------------------------------------------------
(* SpecMenu: the player list edited while the round is Stopped: players    *)
(* are added and removed and colors are cycled, from the player menu and   *)
(* by client events.  World::remove_player is called with indices inside   *)
(* and outside the list.                                                   *)

\* The draws and inputs of SpecMenu:
\*   grid        the position drawn for the player with id k is
\*               grid[k % Len(grid) + 1];
\*   remove_idx  the indices remove_player is called with;
\*   color_of    the players (by index) whose color is cycled.
ScMenu ==
    [pts |-> { <<2, 2>>, <<6, 2>> },
     grid |-> << <<2, 2>>, <<6, 2>>, <<4, 2>>, <<3, 4>>, <<5, 4>>, <<7, 4>>, <<2, 5>>, <<6, 5>> >>,
     angs |-> { 0 },
     color_idx |-> { 0 },
     max_id |-> 9,
     remove_idx |-> { 1, 3 },
     color_of |-> { 2 }]

\* The scenario of one add_player call: the position the new player draws.
DrawFor(sc, id) == [sc EXCEPT !.pts = { sc.grid[(id % Len(sc.grid)) + 1] }]

InitMenu ==
    /\ \E p1 \in random_player(0, 1, << >>, DrawFor(ScMenu, 0)) :
         \E p2 \in random_player(1, 2, << p1 >>, DrawFor(ScMenu, 1)) :
            players = << p1, p2 >>
    /\ next_id = 2
    /\ clock = [now |-> 0, frame_delta |-> 0]
    /\ state = GameState("Stopped", 0)
    /\ items = << >>
    /\ effects = << >>
    /\ crash_feed = << >>
    /\ t = "none"

\* Key::Equals in the player menu, ClientEvent::AddPlayer: world.add_player()
\* with any number of players; with a full palette nothing is drawn.
AddPlayerAny(sc) ==
    /\ t = "none"
    /\ next_id < sc.max_id
    /\ IF Len(players) >= Len(PLAYER_COLORS)
       THEN Become(add_player(W, players[1]))
       ELSE \E np \in random_player(next_id, Len(players) + 1, players, DrawFor(sc, next_id)) :
               Become(add_player(W, np))
    /\ UNCHANGED t

\* world.remove_player(idx) with any index; a panic aborts the program.
RemovePlayerAny(sc) ==
    /\ t = "none"
    /\ \E idx \in sc.remove_idx :
         IF remove_player_panics(W, idx)
         THEN t' = "panic" /\ UNCHANGED world_vars
         ELSE Become(remove_player(W, idx)) /\ UNCHANGED t

\* The players of w with the color of player i (1-based) replaced by c.
set_color(w, i, c) == [w EXCEPT !.players[i].color = c]

\* ArrowLeft / ArrowUp on the color field, ClientEvent::PrevColor: color.prev().
PrevColor(sc) ==
    /\ t = "none"
    /\ state.kind = "Stopped"
    /\ \E i \in sc.color_of \cap 1..Len(players) :
         Become(set_color(W, i, prev(players[i].color)))
    /\ UNCHANGED t

\* ArrowRight / ArrowDown on the color field, ClientEvent::NextColor: color.next().
NextColor(sc) ==
    /\ t = "none"
    /\ state.kind = "Stopped"
    /\ \E i \in sc.color_of \cap 1..Len(players) :
         Become(set_color(W, i, next(players[i].color)))
    /\ UNCHANGED t

NextMenu ==
    \/ AddPlayerAny(ScMenu)
    \/ RemovePlayerAny(ScMenu)
    \/ PrevColor(ScMenu)
    \/ NextColor(ScMenu)

SpecMenu == InitMenu /\ [][NextMenu]_vars

\* C14: the number of players is at least 2 and at most the palette size
\* (8); remove_player() with exactly 2 players leaves the player list as it
\* is, for every index, and so does add_player() with 8 players.
C14_PlayerCount ==
    /\ Len(PLAYER_COLORS) = 8
    /\ Len(players) >= 2
    /\ Len(players) <= Len(PLAYER_COLORS)
    /\ Len(players) = 2 =>
          \A idx \in 0..Len(PLAYER_COLORS) : remove_player(W, idx).players = players
    /\ Len(players) = Len(PLAYER_COLORS) =>
          \A i \in 1..Len(players) : add_player(W, players[i]).players = players

\* The palette is exhausted: eight players exist, six of them added by
\* add_player, and the program has not aborted.
C14_Witness ==
    /\ Len(players) = Len(PLAYER_COLORS)
    /\ next_id = Len(PLAYER_COLORS)
    /\ t = "none"

\* C15: remove_player(index), called with any index, either removes exactly
\* that player or leaves the world as it is; no call aborts the program.
C15_RemoveNeverPanics == t # "panic"

\* C16: no two players have the same color, after any sequence of
\* add_player, remove_player, PlayerColor::prev and PlayerColor::next.
C16_UniqueColors ==
    \A i, j \in 1..Len(players) : i # j => players[i].color # players[j].color

---------------------------------------------------------------------------
(* SpecItems: rounds of two players passing each other on neighbouring     *)
(* lines, with items spawning in their way in the first two ticks of the   *)
(* round.                                                                  *)

\* The item kinds the spawn roll draws (item_kind_idx 0: Speedup, 8:
\* FastTurning, 24: Ghost, 25: NoGap, 28: WallTeleporting) and the positions
\* gen_item_position samples.
ItemDraws ==
    { [item_kind_idx |-> k, pos |-> q] :
        k \in { 0, 8, 24, 25, 28 }, q \in { <<4, 3>>, <<5, 1>> } }

ScItems ==
    [pts |-> { <<2, 2>>, <<7, 4>> },
     angs |-> { 0, 2 },
     color_idx |-> { 0 },
     round_sizes |-> { 2 },
     dirs |-> << {"Straight", "Right"}, {"Straight"} >>,
     keys_at |-> { 4 },
     idle_at |-> { },
     gap_at |-> { },
     gap_of |-> { },
     gap |-> { },
     spawn_at |-> { 3, 4 },
     spawns |-> ItemDraws,
     jitter |-> { 0, 1 }]

InitItems == InitSc(ScItems)

NextItems ==
    \/ Update(ScItems)
    \/ Restart(ScItems)
    \/ Input(ScItems)

SpecItems == InitItems /\ [][NextItems]_vars

\* The type of the effect an item kind stands for.
ItemEffectType(kind) ==
    CASE kind \in {"Speedup", "Slowdown"} -> "Speed"
      [] kind \in {"FastTurning", "SlowTurning"} -> "Turning"
      [] kind \in {"Expand", "Shrink"} -> "Size"
      [] OTHER -> kind

\* The elements of seq at the indices in S, in their order.
Sub(seq, S) ==
    LET f[n \in 0..Len(seq)] ==
            IF n = 0 THEN << >>
            ELSE IF n \in S THEN Append(f[n - 1], seq[n]) ELSE f[n - 1]
    IN  f[Len(seq)]

\* The number of effects of the given type in effs.
CountType(effs, type) == Cardinality({ j \in 1..Len(effs) : effs[j].kind.type = type })

\* In the step at hand, the players that were not crashed when the tick began
\* and are within pickup distance of item k of the scanned list.
Takers(scan, k) ==
    { i \in 1..Len(players) :
        /\ ~players[i].crashed
        /\ intersects(players'[i].pos, scan[k].pos, thickness(players'[i]) + 2 * ITEM_RADIUS) }

\* The items of the scanned list that somebody reaches.
Taken(scan) == { k \in 1..Len(scan) : Takers(scan, k) # {} }

\* The items that go to player i: those it reaches and no player before it.
TakenBy(scan, i) == { k \in Taken(scan) : SetMin(Takers(scan, k)) = i }

\* The effects player i / the world received in the step at hand (the random
\* gap left out).
NewEffects(i) ==
    SelectSeq(players'[i].effects, LAMBDA e : e.start = clock'.now /\ e.kind.type # "Gap")

NewWorldEffects == SelectSeq(effects', LAMBDA e : e.start = clock'.now)

\* The step at hand is a tick that scanned the item list scan: the items
\* somebody reaches are gone and the others stay in their order; every player
\* holds one new effect for each item that went to it (a NoGap effect is
\* gone again if the same player took a Ghost item after it), and the world
\* one for each WallTeleporting item taken.
PickedOnce(scan) ==
    /\ items' = Sub(scan, (1..Len(scan)) \ Taken(scan))
    /\ \A i \in 1..Len(players) :
         /\ \A type \in {"Speed", "Turning", "Size", "Ghost"} :
              CountType(NewEffects(i), type)
                = Cardinality({ k \in TakenBy(scan, i) : ItemEffectType(scan[k].kind) = type })
         /\ CountType(NewEffects(i), "NoGap")
              = Cardinality({ k \in TakenBy(scan, i) :
                                /\ scan[k].kind = "NoGap"
                                /\ \A k2 \in TakenBy(scan, i) :
                                      k2 > k => scan[k2].kind # "Ghost" })
    /\ Len(NewWorldEffects)
         = Cardinality({ k \in Taken(scan) : scan[k].kind = "WallTeleporting" })

\* C17: in a Running tick every item that leaves the world has had its
\* effect applied exactly once, to the lowest-index player that was not
\* crashed when the tick began and is within pickup distance; the items
\* nobody reaches stay in the list in their order.  The scanned list is the
\* item list after the spawn step of the tick.
C17_PickupExactlyOnce ==
    [][RunningTick =>
          \E r \in Rnds(W, ScItems) : PickedOnce(spawn_items(items, r.spawn))]_vars

\* Player 1 has collected two items in the tick just made, one of them
\* (at <<4, 3>>) within pickup distance of player 2 as well: player 1 holds
\* two effects that start now, player 2 and the world hold none, and the
\* item list is empty again.
C17_Witness ==
    /\ items = << >>
    /\ effects = << >>
    /\ Len(players[1].effects) = 2
    /\ players[1].effects[1].start = clock.now
    /\ players[1].effects[2].start = clock.now
    /\ players[2].effects = << >>
    /\ ~players[2].crashed
    /\ \A i \in 1..2 :
         intersects(players[i].pos, <<4, 3>>, thickness(players[i]) + 2 * ITEM_RADIUS)

\* new is old with one element appended.
Added(old, new) == Len(new) = Len(old) + 1 /\ SubSeq(new, 1, Len(old)) = old

\* The outcome r of a pickup by player p adds one effect of the given type,
\* starting now, to the player and leaves the world effects effs alone.
PlayerGets(r, p, effs, now, type) ==
    /\ Added(p.effects, r.p.effects)
    /\ Last(r.p.effects).kind.type = type
    /\ Last(r.p.effects).start = now
    /\ r.effects = effs

\* Every item kind with a signed delta, and WallTeleporting, applied to player
\* p at time now with jitter j, does what the item stands for.  The turning
\* radius is clamped at MIN_TURNING_RADIUS: FastTurning makes it smaller
\* unless it is at the minimum already, SlowTurning makes it larger unless
\* the sum of the deltas stays below the minimum.
AppliesAsNamed(p, effs, now, j) ==
    /\ PlayerGets(apply_item("Speedup", p, effs, now, j), p, effs, now, "Speed")
    /\ Last(apply_item("Speedup", p, effs, now, j).p.effects).kind.delta > 0
    /\ PlayerGets(apply_item("Slowdown", p, effs, now, j), p, effs, now, "Speed")
    /\ Last(apply_item("Slowdown", p, effs, now, j).p.effects).kind.delta < 0
    /\ PlayerGets(apply_item("FastTurning", p, effs, now, j), p, effs, now, "Turning")
    /\ Last(apply_item("FastTurning", p, effs, now, j).p.effects).kind.delta < 0
    /\ turning_radius(apply_item("FastTurning", p, effs, now, j).p) <= turning_radius(p)
    /\ turning_radius(p) > MIN_TURNING_RADIUS =>
          turning_radius(apply_item("FastTurning", p, effs, now, j).p) < turning_radius(p)
    /\ PlayerGets(apply_item("SlowTurning", p, effs, now, j), p, effs, now, "Turning")
    /\ Last(apply_item("SlowTurning", p, effs, now, j).p.effects).kind.delta > 0
    /\ turning_radius(apply_item("SlowTurning", p, effs, now, j).p) >= turning_radius(p)
    /\ BASE_TURNING_RADIUS + sum_deltas(p.effects, "Turning") >= MIN_TURNING_RADIUS =>
          turning_radius(apply_item("SlowTurning", p, effs, now, j).p) > turning_radius(p)
    /\ PlayerGets(apply_item("Expand", p, effs, now, j), p, effs, now, "Size")
    /\ Last(apply_item("Expand", p, effs, now, j).p.effects).kind.delta > 0
    /\ PlayerGets(apply_item("Shrink", p, effs, now, j), p, effs, now, "Size")
    /\ Last(apply_item("Shrink", p, effs, now, j).p.effects).kind.delta < 0
    /\ apply_item("WallTeleporting", p, effs, now, j).p = p
    /\ Added(effs, apply_item("WallTeleporting", p, effs, now, j).effects)
    /\ Last(apply_item("WallTeleporting", p, effs, now, j).effects).kind.type = "WallTeleporting"
    /\ Last(apply_item("WallTeleporting", p, effs, now, j).effects).start = now

\* C18: on pickup Speedup adds a positive and Slowdown a negative Speed
\* delta, FastTurning a Turning delta that reduces and SlowTurning one that
\* increases the effective turning radius, Expand a positive and Shrink a
\* negative Size delta, WallTeleporting one world-level WallTeleporting
\* effect; each added effect starts at the current clock.now.
C18_ItemEffects ==
    \A i \in 1..Len(players) : \A j \in {0, 1} :
        AppliesAsNamed(players[i], effects, clock.now, j)

\* A player has just picked up FastTurning with a Speedup still running: its
\* turning radius is below the base radius, its speed above the base speed.
C18_Witness ==
    \E i \in 1..Len(players) :
        /\ \E a \in 1..Len(players[i].effects) :
              /\ players[i].effects[a].kind.type = "Turning"
              /\ players[i].effects[a].start = clock.now
        /\ turning_radius(players[i]) < BASE_TURNING_RADIUS
        /\ speed(players[i]) > BASE_SPEED

\* C19: no player holds an active Ghost effect and an active NoGap effect at
\* the same time.
C19_GhostNoGapExclusive ==
    \A i \in 1..Len(players) :
        ~(CountType(players[i].effects, "Ghost") > 0 /\ CountType(players[i].effects, "NoGap") > 0)

---------------------------------------------------------------------------
(* SpecLock: the threads of the application around the RwLock<World>.      *)
(*   t.lock     the lock: its writer ("none", "bg", "ui") and the number   *)
(*              of readers;                                                *)
(*   t.bg       the background loop: "sleep" outside the block, "drain"    *)
(*              inside the block before and during the try_recv loop,      *)
(*              "tick" while world.update() runs;                          *)
(*   t.ui       the egui thread: "idle", "input" inside ctx.input with the *)
(*              write guard, "mutated" after it has changed the world,     *)
(*              "between" before world.read(), "render" with the read      *)
(*              guard;                                                     *)
(*   t.queue    the client events waiting in the server channel;           *)
(*   t.muts     the mutations applied to the World so far;                 *)
(*   t.ticks    the calls of world.update() finished so far.               *)

\* The server channel holds at most MaxQueue events.
MaxQueue == 2

\* At most MaxMuts mutations are applied and MaxTicks ticks are made.
MaxMuts == 3

MaxTicks == 2

\* RwLock::write returning whatever the state of the lock.
write_free_always(lock) == TRUE

\* RwLock::write returns: no writer and no reader holds the lock.
write_free(lock) == lock.writer = "none" /\ lock.readers = 0

\* RwLock::read returns: no writer holds the lock.
read_free(lock) == lock.writer = "none"

InitLock ==
    /\ InitWorld(ScItems)
    /\ t = [lock |-> [writer |-> "none", readers |-> 0], bg |-> "sleep", ui |-> "idle",
            queue |-> 0, muts |-> 0, ticks |-> 0]

\* The web server sends a client event into the channel.
ServerSend ==
    /\ t.queue < MaxQueue
    /\ t' = [t EXCEPT !.queue = t.queue + 1]
    /\ UNCHANGED world_vars

\* "let mut world = bg_world.write().unwrap();"
BgLock ==
    /\ t.bg = "sleep"
    /\ t.ticks < MaxTicks
    /\ write_free(t.lock)
    /\ t' = [t EXCEPT !.bg = "drain", !.lock.writer = "bg"]
    /\ UNCHANGED world_vars

\* One round of "while let Ok(e) = server_receiver.try_recv()": the event is
\* applied to the world.
BgDrain ==
    /\ t.bg = "drain"
    /\ t.queue > 0
    /\ t.muts < MaxMuts
    /\ t' = [t EXCEPT !.queue = t.queue - 1, !.muts = t.muts + 1]
    /\ UNCHANGED world_vars

\* try_recv finds the channel empty: world.update() begins.
BgTick ==
    /\ t.bg = "drain"
    /\ t.queue = 0
    /\ t' = [t EXCEPT !.bg = "tick"]
    /\ UNCHANGED world_vars

\* world.update() returns and the block ends: the write guard is dropped.
BgUnlock ==
    /\ t.bg = "tick"
    /\ t' = [t EXCEPT !.bg = "sleep", !.lock.writer = "none", !.ticks = t.ticks + 1]
    /\ UNCHANGED world_vars

\* "let mut world = self.world.write().unwrap();" in ctx.input.
UiLock ==
    /\ t.ui = "idle"
    /\ write_free(t.lock)
    /\ t' = [t EXCEPT !.ui = "input", !.lock.writer = "ui"]
    /\ UNCHANGED world_vars

\* The keys of the frame change the world (directions, pause, restart, menu
\* edits, add / remove player).
UiMutate ==
    /\ t.ui = "input"
    /\ t.muts < MaxMuts
    /\ t' = [t EXCEPT !.ui = "mutated", !.muts = t.muts + 1]
    /\ UNCHANGED world_vars

\* The closure of ctx.input ends: the write guard is dropped.
UiUnlock ==
    /\ t.ui \in {"input", "mutated"}
    /\ t' = [t EXCEPT !.ui = "between", !.lock.writer = "none"]
    /\ UNCHANGED world_vars

\* "let world = self.world.read().unwrap();" before drawing.
UiRead ==
    /\ t.ui = "between"
    /\ read_free(t.lock)
    /\ t' = [t EXCEPT !.ui = "render", !.lock.readers = t.lock.readers + 1]
    /\ UNCHANGED world_vars

\* The frame is drawn: the read guard is dropped.
UiDone ==
    /\ t.ui = "render"
    /\ t' = [t EXCEPT !.ui = "idle", !.lock.readers = t.lock.readers - 1]
    /\ UNCHANGED world_vars

NextLock ==
    \/ ServerSend
    \/ BgLock
    \/ BgDrain
    \/ BgTick
    \/ BgUnlock
    \/ UiLock
    \/ UiMutate
    \/ UiUnlock
    \/ UiRead
    \/ UiDone

SpecLock == InitLock /\ [][NextLock]_vars

\* C20: mutations of the World are applied between ticks only: while a tick
\* is in progress the background loop holds the write lock and the egui
\* thread neither handles input nor draws; every mutation is applied by the
\* holder of the write lock outside a tick; the background loop keeps one
\* and the same write-lock hold from draining its queue to the end of
\* update(); drawing happens under the read lock with no writer.
C20_MutationsBetweenTicks ==
    /\ [](t.bg \in {"drain", "tick"} => t.lock.writer = "bg")
    /\ [](t.bg = "tick" => t.ui \notin {"input", "mutated", "render"})
    /\ [](t.ui \in {"input", "mutated"} => t.lock.writer = "ui")
    /\ [](t.ui = "render" => t.lock.writer = "none" /\ t.lock.readers > 0)
    /\ [][t'.muts # t.muts =>
            /\ t.bg # "tick"
            /\ t.lock.writer \in {"bg", "ui"}
            /\ t'.lock = t.lock]_vars
    /\ [][t.bg = "drain" => t'.bg \in {"drain", "tick"} /\ t'.lock.writer = "bg"]_vars

\* A tick is in progress after a client event has been applied, while the
\* egui thread waits to draw and a further client event waits in the channel.
C20_Witness ==
    /\ t.bg = "tick"
    /\ t.muts > 0
    /\ t.queue > 0
    /\ t.ui = "between"

---------------------------------------------------------------------------
(* SpecHeadOn: rounds of two players placed on one line, 3 to 5 grid units *)
(* apart, heading along the line; player 2 can turn away.                  *)

ScHeadOn ==
    [pts |-> { <<2, 2>>, <<5, 2>>, <<6, 2>>, <<7, 2>> },
     angs |-> { 0, 2 },
     color_idx |-> { 0 },
     round_sizes |-> { 2 },
     dirs |-> << {"Straight"}, {"Straight", "Right"} >>,
     keys_at |-> { 1, 3 },
     idle_at |-> {},
     gap_at |-> {},
     gap_of |-> {},
     gap |-> {},
     spawn_at |-> {},
     spawns |-> {},
     jitter |-> { 0 }]

InitHeadOn == InitSc(ScHeadOn)

NextHeadOn ==
    \/ Update(ScHeadOn)
    \/ Restart(ScHeadOn)
    \/ Input(ScHeadOn)

SpecHeadOn == InitHeadOn /\ [][NextHeadOn]_vars

\* The Running ticks made in the current round.
RunningTicks == clock.now - state.start

\* Player i has gone straight along the x axis since the round began.
StraightRun(i) ==
    /\ Len(players[i].trail) = 1
    /\ players[i].trail[1].type = "Straight"
    /\ players[i].trail[1].start[2] = players[i].trail[1].end[2]
    /\ players[i].angle % 4 \in {0, 2}

\* Player a heads right, player b heads left, and b started to the right of
\* a on the same line, farther away than the two half thicknesses.
HeadOn(a, b) ==
    /\ state.kind \in {"Running", "Paused", "Stopped"}
    /\ Len(players) = 2
    /\ StraightRun(a)
    /\ StraightRun(b)
    /\ players[a].angle % 4 = 0
    /\ players[b].angle % 4 = 2
    /\ players[a].trail[1].start[2] = players[b].trail[1].start[2]
    /\ 2 * (players[b].trail[1].start[1] - players[a].trail[1].start[1])
         > thickness(players[a]) + thickness(players[b])

\* The distance between the starts, and the closing speed per tick.
StartDist(a, b) == players[b].trail[1].start[1] - players[a].trail[1].start[1]

ClosingSpeed(a, b) == (speed(players[a]) + speed(players[b])) * UPDATE_TIME

\* Twice the distance left between the heads after n Running ticks, of which
\* the first seeds the trails and moves nobody; negative once they have
\* passed each other.
HeadGap2(a, b, n) == 2 * (StartDist(a, b) - ClosingSpeed(a, b) * (n - 1))

\* The heads are closer than the sum of the half thicknesses.
InContact(a, b, n) == HeadGap2(a, b, n) < thickness(players[a]) + thickness(players[b])

\* ceil(x / y) for positive integers.
CeilDiv(x, y) == (x + y - 1) \div y

---------------------------------------------------------------------------
(* SpecProbe: the band tests of intersects_trail applied to one section    *)
(* that is not a gap.  The unit under test t holds the section, the probe  *)
(* position, twice the probe radius, and the result of the test.           *)

\* Sections are 1..MaxThick thick.
MaxThick == 4

\* Straight sections from <<4, 4>> along the four axis directions, and arcs
\* from <<4, 4>> for every heading, both directions and every sweep.
ProbeSections ==
    { StraightTrailSection(<<4, 4>>, FALSE, th, e) :
        th \in 1..MaxThick, e \in { <<4, 4>>, <<7, 4>>, <<1, 4>>, <<4, 7>>, <<4, 1>> } }
    \cup
    { ArcTrailSection(<<4, 4>>, FALSE, th, d, BASE_TURNING_RADIUS, h, h + n * angle_sign(d)) :
        th \in 1..BASE_THICKNESS, d \in {"Right", "Left"}, h \in 0..3, n \in 0..MaxSweep }

InitProbe ==
    /\ state = GameState("Stopped", 0)
    /\ clock = [now |-> 0, frame_delta |-> 0]
    /\ items = << >>
    /\ effects = << >>
    /\ players = << >>
    /\ crash_feed = << >>
    /\ next_id = 0
    /\ \E pos \in (0..MaxCoord) \X (0..MaxCoord), s \in ProbeSections, d2 \in {0, BASE_THICKNESS} :
          t = [s |-> s, pos |-> pos, dist2 |-> d2, test |-> "none", hit |-> FALSE]

\* intersects_straight_trailsection(s, pos, dist)
ProbeStraight ==
    /\ t.test = "none"
    /\ t.s.type = "Straight"
    /\ t' = [t EXCEPT !.test = "straight",
                      !.hit = intersects_straight_trailsection(t.s, t.pos, t.dist2)]
    /\ UNCHANGED world_vars

\* intersects_arc_trailsection(s, pos, dist)
ProbeArc ==
    /\ t.test = "none"
    /\ t.s.type = "Arc"
    /\ t' = [t EXCEPT !.test = "arc",
                      !.hit = intersects_arc_trailsection(t.s, t.pos, t.dist2)]
    /\ UNCHANGED world_vars

NextProbe == ProbeStraight \/ ProbeArc

SpecProbe == InitProbe /\ [][NextProbe]_vars

\* The probe lies beside a straight section of positive length, within its
\* longitudinal extent.
Beside(s, pos) ==
    \/ /\ s.start[2] = s.end[2] /\ s.start[1] # s.end[1]
       /\ (pos[1] - s.start[1]) * (pos[1] - s.end[1]) <= 0
    \/ /\ s.start[1] = s.end[1] /\ s.start[2] # s.end[2]
       /\ (pos[2] - s.start[2]) * (pos[2] - s.end[2]) <= 0

\* The signed distance of the probe from the center line of an axis-parallel
\* section.
Offset(s, pos) ==
    IF s.start[2] = s.end[2] THEN pos[2] - s.start[2] ELSE pos[1] - s.start[1]

\* C22: a probe of radius 0 beside a straight section of thickness th, within
\* its longitudinal extent, is a hit when its distance from the center line
\* is less than th / 2 and no hit when it is greater, on either side of the
\* line and for each of the four directions of the section.
C22_StraightBand ==
    (t.test = "straight" /\ t.dist2 = 0 /\ Beside(t.s, t.pos)) =>
        /\ 2 * Abs(Offset(t.s, t.pos)) < t.s.thickness => t.hit
        /\ 2 * Abs(Offset(t.s, t.pos)) > t.s.thickness => ~t.hit

\* The section from <<4, 4>> to <<7, 4>> of thickness 3 is hit one unit off
\* its center line on its negative side, amid the segment.
C22_Witness ==
    /\ t.test = "straight"
    /\ t.dist2 = 0
    /\ t.s.end = <<7, 4>>
    /\ t.s.thickness = 3
    /\ t.pos = <<5, 3>>
    /\ t.hit

\* The quarter turns an arc has swept.
Sweep(s) == Abs(s.player_end_angle - s.player_start_angle)

\* The angle (as a code 0..7) from which the arc is swept with rising angle:
\* a right turn starts at arc_start_angle, a left turn ends there.
SweptFrom(s) ==
    IF s.dir = "Right" THEN 2 * arc_start_angle(s) ELSE 2 * arc_end_angle(s)

\* The probe's angle about the center lies strictly inside the swept range,
\* and strictly inside the remainder of the circle.
InSwept(s, pos) ==
    \E k \in -2..2 :
        /\ SweptFrom(s) < angle(center_pos(s), pos) + 8 * k
        /\ angle(center_pos(s), pos) + 8 * k < SweptFrom(s) + 2 * Sweep(s)

InRemainder(s, pos) ==
    \E k \in -2..2 :
        /\ SweptFrom(s) + 2 * Sweep(s) < angle(center_pos(s), pos) + 8 * k
        /\ angle(center_pos(s), pos) + 8 * k < SweptFrom(s) + 8

\* The probe lies strictly inside the radial band of the arc.
InBand(s, pos, dist2) ==
    /\ distance(center_pos(s), pos) < (2 * s.radius + s.thickness + dist2)
                                      * (2 * s.radius + s.thickness + dist2)
    /\ \/ 2 * s.radius <= s.thickness + dist2
       \/ distance(center_pos(s), pos) > (2 * s.radius - s.thickness - dist2)
                                         * (2 * s.radius - s.thickness - dist2)

\* The probe is within reach of neither end of the arc.
OffCaps(s, pos, dist2) ==
    /\ distance(s.start_pos, pos) >= (s.thickness + dist2) * (s.thickness + dist2)
    /\ distance(arc_end_pos(s), pos) >= (s.thickness + dist2) * (s.thickness + dist2)

\* The normalised range of the arc wraps through 0.
Wraps(s) == (SweptFrom(s) % 8) + 2 * Sweep(s) > 8

\* C23: for an arc that has swept less than a full turn, whether or not its
\* range wraps through 0 after normalisation, and for both turning
\* directions: a probe inside the radial band at an angle inside the swept
\* range is a hit, and a probe inside the band at an angle in the remainder,
\* within reach of neither end, is no hit.
C23_ArcBand ==
    (t.test = "arc" /\ Sweep(t.s) > 0 /\ Sweep(t.s) < TAU /\ InBand(t.s, t.pos, t.dist2)) =>
        /\ InSwept(t.s, t.pos) => t.hit
        /\ (InRemainder(t.s, t.pos) /\ OffCaps(t.s, t.pos, t.dist2)) => ~t.hit

\* The right-turning arc from heading 0 to heading 3 (three quarter turns)
\* wraps; a probe inside the band strictly between the angles 0 and 1 about
\* the center, away from both ends, is hit.
C23_Witness ==
    /\ t.test = "arc"
    /\ t.dist2 = 0
    /\ t.s.dir = "Right"
    /\ t.s.player_start_angle = 0
    /\ t.s.player_end_angle = 3
    /\ Wraps(t.s)
    /\ InBand(t.s, t.pos, 0)
    /\ angle(center_pos(t.s), t.pos) = 1
    /\ OffCaps(t.s, t.pos, 0)
    /\ t.hit

---------------------------------------------------------------------------

\* The clock after update() called in the current state.
ClockAfterUpdate(rnd) == update(W, rnd).clock

\* C24: clock.now never decreases; update() called in Starting or Running
\* sets frame_delta to UPDATE_TIME and advances now by exactly UPDATE_TIME,
\* update() called in Paused or Stopped sets frame_delta to zero and leaves
\* now as it is; no other operation changes the clock.
C24_Clock ==
    /\ [][clock'.now >= clock.now]_vars
    /\ [](\A rnd \in Rnds(W, ScMain) :
            IF state.kind \in {"Starting", "Running"}
            THEN /\ ClockAfterUpdate(rnd).frame_delta = UPDATE_TIME
                 /\ ClockAfterUpdate(rnd).now = clock.now + UPDATE_TIME
            ELSE /\ ClockAfterUpdate(rnd).frame_delta = 0
                 /\ ClockAfterUpdate(rnd).now = clock.now)
    /\ [][clock' # clock =>
            \/ /\ state.kind \in {"Starting", "Running"}
               /\ clock' = [now |-> clock.now + UPDATE_TIME, frame_delta |-> UPDATE_TIME]
            \/ /\ state.kind \in {"Paused", "Stopped"}
               /\ clock' = [now |-> clock.now, frame_delta |-> 0]]_vars

\* Two Running ticks into a round: the clock stands two quanta after the
\* round's start, frame_delta is the quantum, and a player has moved.
C24_Witness ==
    /\ state.kind = "Running"
    /\ clock.frame_delta = UPDATE_TIME
    /\ clock.now = state.start + 2
    /\ \E i \in 1..Len(players) :
          /\ players[i].trail # << >>
          /\ start_pos(players[i].trail[1]) # players[i].pos

---------------------------------------------------------------------------

\* C25: restart() called in Starting, Running or Paused changes nothing: the
\* World it returns is the World it was called on, whatever positions and
\* headings the draws would give; and no step takes a round that is
\* Running or Paused back to Starting.
C25_RestartNoOp ==
    /\ [](state.kind # "Stopped" =>
            \A draws \in RestartDraws(players, 1, ScMain) : restart(W, draws) = W)
    /\ [][state.kind \in {"Running", "Paused"} => state'.kind # "Starting"]_vars

\* Space can be pressed in a paused round that has an item on the field, a
\* trail on the ground and time on the clock.
C25_Witness ==
    /\ state.kind = "Paused"
    /\ Len(players) \in ScMain.round_sizes
    /\ items # << >>
    /\ clock.now > state.start
    /\ \E i \in 1..Len(players) : players[i].trail # << >>

---------------------------------------------------------------------------
(* SpecIds: a third player is added and removed again and again in the     *)
(* player menu, and clients send Input events.                             *)

\* The draws and inputs of SpecIds:
\*   input_ids   the player ids of the Input events clients send;
\*   input_at    the values of next_id at which they send them.
ScIds ==
    [ScMenu EXCEPT !.remove_idx = { 2 }] @@
    [max_players |-> 3, input_ids |-> { 0, 2 }, input_at |-> { 0, 3 }]

\* world.add_player() with fewer than max_players players; at u16::MAX the
\* increment of next_id wraps or aborts the program, as the build decides.
AddPlayerIds(sc) ==
    /\ t = "none"
    /\ Len(players) < sc.max_players
    /\ \/ \E np \in random_player(next_id, Len(players) + 1, players, DrawFor(sc, next_id)) :
             Become(add_player(W, np)) /\ UNCHANGED t
       \/ add_player_panics(W) /\ t' = "panic" /\ UNCHANGED world_vars

\* ClientEvent::Input { player_id, dir }
RemoteInput(sc) ==
    /\ t = "none"
    /\ next_id \in sc.input_at
    /\ \E id \in sc.input_ids, dir \in {"Right", "Straight"} :
         IF find_player(players, id) = 0 THEN UNCHANGED world_vars
         ELSE Become([W EXCEPT !.players[find_player(players, id)].remote_direction = dir])
    /\ UNCHANGED t

NextIds ==
    \/ AddPlayerIds(ScIds)
    \/ RemovePlayerAny(ScIds)
    \/ RemoteInput(ScIds)

SpecIds == InitMenu /\ [][NextIds]_vars

\* The ids of the players, in list order.
Ids(pls) == [i \in 1..Len(pls) |-> pls[i].id]

\* C26: all current players have pairwise distinct ids; a step leaves the
\* list of ids as it is, removes one id from it, or appends one id that no
\* player has had before (every id handed out so far is below next_id, and
\* the new one is next_id); an Input event for an id that no current player
\* has changes no player.
C26_StableUniqueIds ==
    /\ [](\A i, j \in 1..Len(players) : i # j => players[i].id # players[j].id)
    /\ [](\A i \in 1..Len(players) : players[i].id < next_id)
    /\ [][\/ Ids(players') = Ids(players) /\ next_id' = next_id
          \/ /\ \E k \in 1..Len(players) : Ids(players') = RemoveAt(Ids(players), k)
             /\ next_id' = next_id
          \/ /\ Ids(players') = Append(Ids(players), next_id)
             /\ next_id' = next_id + 1
          \/ t' = "panic"]_vars
    /\ [](\A id \in 0..3 : find_player(players, id) = 0 =>
            \A i \in 1..Len(players) : players[i].id # id)

---------------------------------------------------------------------------

\* The players after the first loop of a Running tick with the draws rnd:
\* effects expired, gaps rolled, everybody moved, nobody tested yet.
Moved(rnd) ==
    [i \in 1..Len(players) |->
        expire_gap_move(clock_update(clock, state), players[i], rnd.gap[i])]

\* C27: a Clear picked up during a tick empties no trail before every player
\* has been tested in that tick: each player that was not crashed when the
\* tick began, is not in a gap, and after the movement step touches the trail
\* of another player as the movement step left it, ends the tick crashed,
\* whoever picks up a Clear item in the tick.  (Ticks with wall teleporting,
\* which moves players between the movement step and the test, are left
\* out.)
C27_ClearDeferred ==
    state.kind = "Running" =>
        \A rnd \in Rnds(W, ScMain) :
            ~wall_teleporting(retain_active(effects, clock.now + UPDATE_TIME)) =>
                \A i \in 1..Len(players) :
                    (/\ ~players[i].crashed
                     /\ ~gap(Moved(rnd)[i])
                     /\ hit_others(Moved(rnd), i, Moved(rnd)[i]) # {})
                    => update(W, rnd).players[i].crashed

---------------------------------------------------------------------------
(* SpecLoop: rounds of two players who can turn right once the round runs; *)
(* player 1 can roll a gap on its second Running tick.  No items.          *)

ScLoop ==
    [pts |-> { <<3, 2>>, <<7, 2>> },
     angs |-> { 0 },
     color_idx |-> { 0 },
     round_sizes |-> { 2 },
     dirs |-> << {"Straight", "Right"}, {"Straight", "Right"} >>,
     keys_at |-> { 2, 3 },
     idle_at |-> {},
     gap_at |-> { 4 },
     gap_of |-> { 1 },
     gap |-> { 0, 1 },
     spawn_at |-> {},
     spawns |-> {},
     jitter |-> { 0 }]

InitLoop == InitSc(ScLoop)

NextLoop ==
    \/ Update(ScLoop)
    \/ Restart(ScLoop)
    \/ Input(ScLoop)

SpecLoop == InitLoop /\ [][NextLoop]_vars

\* The clearance between player p and section s, doubled, and the player's
\* distances to the two ends of the section.
Clearance(p, s) == thickness(p) + s.thickness

EndDist(p, s) == distance(p.pos, end_pos(s))

StartDist2(p, s) == distance(p.pos, start_pos(s))

\* The generic band test of section s with the probe radius of player p.
Generic(p, s) == ~s.gap /\ intersects_section(s, p.pos, thickness(p))

\* Section s is an arc swept by more than pi.
LongArc(s) == s.type = "Arc" /\ Abs(s.player_start_angle - s.player_end_angle) > PI

\* The verdict on player p and one section of its trail when the special
\* treatment is given to the section.
Special(p, s) ==
    IF Lt(EndDist(p, s), Clearance(p, s))
    THEN LongArc(s) /\ Lt(StartDist2(p, s), Clearance(p, s))
    ELSE Gt(EndDist(p, s), Clearance(p, s)) /\ Generic(p, s)

\* update() with the draws rnd records an own-trail crash of player i.
OwnCrash(rnd, i) ==
    \E k \in (Len(crash_feed) + 1)..Len(update(W, rnd).crash_feed) :
        update(W, rnd).crash_feed[k] =
            Crash(clock.now + UPDATE_TIME, OwnMessage(Moved(rnd)[i]))

\* C28 as amended: in the own-trail test every section of the trail, the
\* most recent and the older ones alike, gets the special treatment: a
\* player that is not in a gap crashes on its own trail in a tick exactly
\* when, after the movement step, some section either has its end within
\* clearance and is an arc swept by more than pi whose start is within
\* clearance too, or has its end farther than the clearance, is not a gap
\* and is hit by the generic band test with half the player's thickness as
\* probe radius.
C28_EverySectionSpecial ==
    state.kind = "Running" =>
        \A rnd \in Rnds(W, ScLoop) : \A i \in 1..Len(players) :
            ~players[i].crashed =>
                (OwnCrash(rnd, i) <=>
                    /\ ~gap(Moved(rnd)[i])
                    /\ \E k \in 1..Len(Moved(rnd)[i].trail) :
                           Special(Moved(rnd)[i], Moved(rnd)[i].trail[k]))

\* After a Running tick a player that is not in a gap has come back to
\* within clearance of the end of an older section of its trail that is not
\* a gap, the generic band test hits that section, and the player has not
\* crashed.
C28_Witness ==
    /\ state.kind \in {"Running", "Stopped"}
    /\ clock.now > state.start + UPDATE_TIME
    /\ \E i \in 1..Len(players) :
          /\ ~players[i].crashed
          /\ ~gap(players[i])
          /\ \E k \in 1..(Len(players[i].trail) - 1) :
                /\ Lt(EndDist(players[i], players[i].trail[k]),
                      Clearance(players[i], players[i].trail[k]))
                /\ Generic(players[i], players[i].trail[k])

\* C28 as stated: only the most recent section is treated specially; an
\* older section that is not a gap and that the generic band test hits
\* crashes the player, whatever the distance to the section's end.
C28_OlderSectionsGeneric ==
    state.kind = "Running" =>
        \A rnd \in Rnds(W, ScLoop) : \A i \in 1..Len(players) :
            (/\ ~players[i].crashed
             /\ ~gap(Moved(rnd)[i])
             /\ \E k \in 1..(Len(Moved(rnd)[i].trail) - 1) :
                    Generic(Moved(rnd)[i], Moved(rnd)[i].trail[k]))
            => OwnCrash(rnd, i)

---------------------------------------------------------------------------

\* The indices of the crash feed cf that report the player named name.
EntriesOf(cf, name) == { k \in 1..Len(cf) : CrashedName(cf[k]) = name }

\* C29: in a Running tick a player that crashes adds exactly one entry to
\* the crash feed, a player that does not crash adds none, and the crash
\* feed never holds two entries of one player.
C29_OneEntryPerCrash ==
    /\ [][RunningTick =>
            \A i \in 1..Len(players) :
                Cardinality(EntriesOf(crash_feed', players[i].name))
                    - Cardinality(EntriesOf(crash_feed, players[i].name))
                = (IF ~players[i].crashed /\ players'[i].crashed THEN 1 ELSE 0)]_vars
    /\ [](\A i \in 1..Len(players) :
            Cardinality(EntriesOf(crash_feed, players[i].name)) <= 1)

---------------------------------------------------------------------------

\* Section s has zero length.
ZeroLength(s) ==
    IF s.type = "Straight" THEN s.start = s.end
    ELSE s.player_start_angle = s.player_end_angle

\* The parameters of player m differ from those of the last section of the
\* trail tr.
Differs(tr, m) ==
    \/ direction(m) # section_dir(Last(tr))
    \/ gap(m) # Last(tr).gap
    \/ thickness(m) # Last(tr).thickness
    \/ (Last(tr).type = "Arc" /\ turning_radius(m) # Last(tr).radius)

\* Section s carries the parameters of player m and starts where player p
\* stands, heading as p heads.
SeededAt(s, p, m) ==
    /\ start_pos(s) = p.pos
    /\ section_dir(s) = direction(m)
    /\ s.gap = gap(m)
    /\ s.thickness = thickness(m)
    /\ s.type = "Arc" => (s.radius = turning_radius(m) /\ s.player_start_angle = p.angle)

\* Section s cut back to zero length at the place and heading of player p.
Seed(s, p) ==
    IF s.type = "Straight" THEN [s EXCEPT !.end = p.pos]
    ELSE [s EXCEPT !.player_end_angle = p.angle]

\* Section s2 is section s1 extended in place by one tick of player m, who
\* stands at its end; s1 ends where the player stood heading as in p.
ExtendedBy(s1, s2, p, m) ==
    /\ end_pos(s2) = m.pos
    /\ IF s1.type = "Straight"
       THEN /\ s2 = [s1 EXCEPT !.end = m.pos]
            /\ m.angle = p.angle
            /\ m.pos = << p.pos[1] + UPDATE_TIME * speed(m) * CosQ(p.angle),
                          p.pos[2] + UPDATE_TIME * speed(m) * SinQ(p.angle) >>
       ELSE /\ s2 = [s1 EXCEPT !.player_end_angle = m.angle]
            /\ m.angle = s1.player_end_angle
                         + ((UPDATE_TIME * speed(m)) \div s1.radius) * angle_sign(s1.dir)

\* The movement step took player p, with the trail tr, to m: on an empty
\* trail it appended a zero-length section and left position and heading
\* alone; otherwise it appended a section if the parameters differ and then
\* extended the last section, leaving the sections before it as they were.
AppendThenExtend(p, m) ==
    IF p.trail = << >>
    THEN /\ Len(m.trail) = 1
         /\ ZeroLength(m.trail[1]) /\ SeededAt(m.trail[1], p, m)
         /\ m.pos = p.pos /\ m.angle = p.angle
    ELSE IF Differs(p.trail, m)
    THEN /\ Len(m.trail) = Len(p.trail) + 1
         /\ SubSeq(m.trail, 1, Len(p.trail)) = p.trail
         /\ SeededAt(Last(m.trail), p, m)
         /\ ExtendedBy(Seed(Last(m.trail), p), Last(m.trail), p, m)
    ELSE /\ Len(m.trail) = Len(p.trail)
         /\ SubSeq(m.trail, 1, Len(p.trail) - 1) = SubSeq(p.trail, 1, Len(p.trail) - 1)
         /\ ExtendedBy(Last(p.trail), Last(m.trail), p, m)

\* C30 as amended: a movement step on an empty trail appends one zero-length
\* section seeded at the player's position and changes neither position nor
\* heading; on a trail that is not empty it appends such a section when
\* direction, gap flag, thickness or arc radius differ from the last
\* section, and then, in the same step, extends the last section in place.
C30_AppendThenExtend ==
    state.kind = "Running" =>
        \A rnd \in Rnds(W, ScMain) : \A i \in 1..Len(players) :
            ~players[i].crashed => AppendThenExtend(players[i], Moved(rnd)[i])

\* After a Running tick a player that has not crashed has a trail whose
\* last section starts where the section before it ends and has the length
\* of one tick: the tick appended it and extended it.
C30_Witness ==
    /\ state.kind = "Running"
    /\ \E i \in 1..Len(players) :
          /\ ~players[i].crashed
          /\ Len(players[i].trail) >= 2
          /\ Last(players[i].trail).type = "Arc"
          /\ ~Last(players[i].trail).teleported
          /\ start_pos(Last(players[i].trail))
               = end_pos(players[i].trail[Len(players[i].trail) - 1])
          /\ Abs(Last(players[i].trail).player_end_angle
                 - Last(players[i].trail).player_start_angle) = 1
          /\ players[i].pos # start_pos(Last(players[i].trail))

\* C30 as stated: a movement step either appends a zero-length section or
\* extends the last one, never both: in a step that appends a section the
\* new section has zero length and the player's position and heading do not
\* change.
C30_AppendOrExtend ==
    state.kind = "Running" =>
        \A rnd \in Rnds(W, ScMain) : \A i \in 1..Len(players) :
            (~players[i].crashed /\ Len(Moved(rnd)[i].trail) > Len(players[i].trail)) =>
                /\ ZeroLength(Last(Moved(rnd)[i].trail))
                /\ Moved(rnd)[i].pos = players[i].pos
                /\ Moved(rnd)[i].angle = players[i].angle

---------------------------------------------------------------------------

\* The parameters of section s: direction, gap flag, thickness, arc radius.
ParamsOf(s) ==
    << section_dir(s), s.gap, s.thickness, IF s.type = "Arc" THEN s.radius ELSE 0 >>

\* The current parameters of player m, the radius read for section s.
ParamsFor(m, s) ==
    << direction(m), gap(m), thickness(m),
       IF s.type = "Arc" THEN turning_radius(m) ELSE 0 >>

\* C31: a movement step changes the parameters (direction, gap flag,
\* thickness, arc radius) of no section, changes a section only if its
\* parameters equal the player's current ones, and leaves a trail whose last
\* section has the player's current parameters.
C31_SectionParamsFixed ==
    state.kind = "Running" =>
        \A rnd \in Rnds(W, ScItems) : \A i \in 1..Len(players) :
            ~players[i].crashed =>
                /\ Len(Moved(rnd)[i].trail) >= Len(players[i].trail)
                /\ \A k \in 1..Len(players[i].trail) :
                      /\ ParamsOf(Moved(rnd)[i].trail[k]) = ParamsOf(players[i].trail[k])
                      /\ Moved(rnd)[i].trail[k] # players[i].trail[k] =>
                            ParamsOf(players[i].trail[k])
                                = ParamsFor(Moved(rnd)[i], players[i].trail[k])
                /\ ParamsOf(Last(Moved(rnd)[i].trail))
                      = ParamsFor(Moved(rnd)[i], Last(Moved(rnd)[i].trail))

\* A running round in which a player's gap state, thickness or turning
\* radius has changed and its last section, drawn with the new values,
\* follows a section of the same direction drawn with the old ones.
C31_Witness ==
    /\ state.kind = "Running"
    /\ \E i \in 1..Len(players) :
          /\ ~players[i].crashed
          /\ Len(players[i].trail) >= 2
          /\ ParamsOf(Last(players[i].trail)) = ParamsFor(players[i], Last(players[i].trail))
          /\ players[i].pos # start_pos(Last(players[i].trail))
          /\ section_dir(Last(players[i].trail))
               = section_dir(players[i].trail[Len(players[i].trail) - 1])
          /\ ParamsOf(Last(players[i].trail))
               # ParamsOf(players[i].trail[Len(players[i].trail) - 1])

---------------------------------------------------------------------------

\* The crash records that update() with the draws rnd appends for the
\* player named name.
CrashesOf(rnd, name) ==
    { update(W, rnd).crash_feed[k] :
        k \in { j \in (Len(crash_feed) + 1)..Len(update(W, rnd).crash_feed) :
                  CrashedName(update(W, rnd).crash_feed[j]) = name } }

\* C32: a player whose gap() is true when the tick tests it (after expiry,
\* gap roll and movement) gets no crash record other than a wall record,
\* ends the tick crashed only if it is at the wall, and every section the
\* tick adds to its trail is gap-flagged.
C32_GapShields ==
    state.kind = "Running" =>
        \A rnd \in Rnds(W, ScMain) : \A i \in 1..Len(players) :
            (~players[i].crashed /\ gap(Moved(rnd)[i])) =>
                /\ \A c \in CrashesOf(rnd, players[i].name) : c.message.type = "Wall"
                /\ update(W, rnd).players[i].crashed =>
                      /\ hits_wall(Moved(rnd)[i])
                      /\ CrashesOf(rnd, players[i].name) # {}
                /\ \A k \in (Len(players[i].trail) + 1)..Len(update(W, rnd).players[i].trail) :
                      update(W, rnd).players[i].trail[k].gap

\* After a Running tick a player in a gap, whose last section is a gap,
\* stands on the trail of another player and has not crashed.
C32_Witness ==
    /\ state.kind \in {"Running", "Stopped"}
    /\ \E i \in 1..Len(players) :
          /\ ~players[i].crashed
          /\ gap(players[i])
          /\ players[i].trail # << >>
          /\ Last(players[i].trail).gap
          /\ players[i].pos # start_pos(Last(players[i].trail))
          /\ hit_others(players, i, players[i]) # {}

---------------------------------------------------------------------------

\* The quarter turns by which one Starting tick rotates player p.
Aim(p) ==
    IF direction(p) = "Straight" THEN 0
    ELSE ((UPDATE_TIME * BASE_SPEED) \div BASE_TURNING_RADIUS) * angle_sign(direction(p))

\* C33: update() in Starting leaves the items, the world effects and the
\* crash feed as they are, and changes no field of a player other than the
\* heading, which it rotates right or left as the player's resolved
\* direction says; the trails are empty and stay empty.
C33_StartingInert ==
    [][StartingTick =>
          /\ items' = items
          /\ effects' = effects
          /\ crash_feed' = crash_feed
          /\ next_id' = next_id
          /\ Len(players') = Len(players)
          /\ \A i \in 1..Len(players) :
                /\ players'[i] = [players[i] EXCEPT !.angle = players[i].angle + Aim(players[i])]
                /\ players[i].trail = << >>]_vars

\* The round has just left Starting, and a player that was steering while
\* it waited has a heading restart() did not draw; nobody has a trail.
C33_Witness ==
    /\ state.kind = "Running"
    /\ state.start = clock.now
    /\ \A i \in 1..Len(players) : players[i].trail = << >>
    /\ \E i \in 1..Len(players) :
          /\ players[i].angle \notin ScMain.angs
          /\ direction(players[i]) # "Straight"

---------------------------------------------------------------------------
(* SpecGapItems: the rounds of SpecItems with Ghost and NoGap items only,  *)
(* and with random gaps that either player can roll in the second and the  *)
(* third Running tick.                                                     *)

ScGapItems ==
    [ScItems EXCEPT !.gap_at = { 4, 5 },
                    !.gap_of = { 1, 2 },
                    !.gap = { 0, 1 },
                    !.spawns = { d \in ItemDraws : d.item_kind_idx \in { 24, 25 } }]

InitGapItems == InitSc(ScGapItems)

NextGapItems ==
    \/ Update(ScGapItems)
    \/ Restart(ScGapItems)
    \/ Input(ScGapItems)

SpecGapItems == InitGapItems /\ [][NextGapItems]_vars

\* The effects of player i that are still active one tick from now.
Retained(i) == retain_active(players[i].effects, clock.now + UPDATE_TIME)

\* C34: no player holds a Gap effect together with a NoGap effect, or two
\* Gap effects; and the first loop of a Running tick adds a Gap effect only
\* to a player that is not crashed and holds, after the expiry, neither a
\* Gap, a Ghost nor a NoGap effect.
C34_GapExcludesNoGap ==
    /\ \A i \in 1..Len(players) :
          /\ CountType(players[i].effects, "Gap") <= 1
          /\ CountType(players[i].effects, "Gap") = 0
                \/ CountType(players[i].effects, "NoGap") = 0
    /\ state.kind = "Running" =>
          \A rnd \in Rnds(W, ScGapItems) : \A i \in 1..Len(players) :
              CountType(Moved(rnd)[i].effects, "Gap") > CountType(Retained(i), "Gap") =>
                  /\ ~players[i].crashed
                  /\ \A type \in {"Gap", "Ghost", "NoGap"} : CountType(Retained(i), type) = 0

\* A player that rolled a gap has picked up a NoGap item in a later part of
\* the same tick: it holds NoGap and no Gap, and the section it drew in the
\* tick is a gap.
C34_Witness ==
    \E i \in 1..Len(players) :
        /\ ~players[i].crashed
        /\ CountType(players[i].effects, "NoGap") = 1
        /\ CountType(players[i].effects, "Gap") = 0
        /\ CountType(players[i].effects, "Ghost") = 0
        /\ players[i].trail # << >>
        /\ Last(players[i].trail).gap

---------------------------------------------------------------------------
(* SpecAttr: a player that has picked up any sequence of at most           *)
(* MaxEffects speed, turning and size items, all still active, and the     *)
(* attributes derived from its effects.                                    *)

MaxEffects == 3

StackKinds == { "Speedup", "Slowdown", "FastTurning", "SlowTurning", "Expand", "Shrink" }

\* The player after picking up the items of the given kinds, in order.
RECURSIVE Collect(_, _)
Collect(p, kinds) ==
    IF kinds = << >> THEN p
    ELSE Collect(apply_item(Head(kinds), p, << >>, 0, 0).p, Tail(kinds))

InitAttr ==
    /\ state = GameState("Stopped", 0)
    /\ clock = [now |-> 0, frame_delta |-> 0]
    /\ items = << >>
    /\ effects = << >>
    /\ players = << >>
    /\ crash_feed = << >>
    /\ next_id = 0
    /\ \E n \in 0..MaxEffects : \E kinds \in [1..n -> StackKinds] :
         \E d \in {"Right", "Left"} :
          t = [kinds |-> kinds, op |-> "none", out |-> 0,
               p |-> Collect([Player(0, 1, <<4, 4>>, 0, "Orange") EXCEPT !.local_direction = d],
                             kinds)]

\* Player::speed
AttrSpeed ==
    /\ t.op = "none"
    /\ t' = [t EXCEPT !.op = "speed", !.out = speed(t.p)]
    /\ UNCHANGED world_vars

\* Player::thickness
AttrThickness ==
    /\ t.op = "none"
    /\ t' = [t EXCEPT !.op = "thickness", !.out = thickness(t.p)]
    /\ UNCHANGED world_vars

\* Player::turning_radius
AttrTurningRadius ==
    /\ t.op = "none"
    /\ t' = [t EXCEPT !.op = "turning_radius", !.out = turning_radius(t.p)]
    /\ UNCHANGED world_vars

\* Two movement steps of the turning player: the first creates the arc
\* section, the second extends it; out is the radius the arc step divides by.
AttrArcStep ==
    /\ t.op = "none"
    /\ t' = [t EXCEPT !.op = "arc",
                      !.p = move_player(UPDATE_TIME, move_player(UPDATE_TIME, t.p)),
                      !.out = Last(move_player(UPDATE_TIME, t.p).trail).radius]
    /\ UNCHANGED world_vars

NextAttr == AttrSpeed \/ AttrThickness \/ AttrTurningRadius \/ AttrArcStep

SpecAttr == InitAttr /\ [][NextAttr]_vars

\* The number of items of kind k among kinds.
Picked(kinds, k) == Cardinality({ j \in 1..Len(kinds) : kinds[j] = k })

\* Base plus the stacked deltas, floored at the minimum: the items of kind
\* up add dup each, the items of kind down take ddown each.
Stacked(kinds, base, min, up, dup, down, ddown) ==
    Max(min, base + dup * Picked(kinds, up) - ddown * Picked(kinds, down))

\* C35: with any stack of active effects, speed(), thickness() and
\* turning_radius() are the base value plus the sum of the deltas of the
\* matching effects, floored at the minimum; none is below its minimum, and
\* the radius the arc step divides by is the floored turning radius, hence
\* positive.
C35_DerivedAttributes ==
    /\ t.op = "speed" =>
          /\ t.out = Stacked(t.kinds, BASE_SPEED, MIN_SPEED, "Speedup", 1, "Slowdown", 1)
          /\ t.out >= MIN_SPEED
    /\ t.op = "thickness" =>
          /\ t.out = Stacked(t.kinds, BASE_THICKNESS, MIN_THICKNESS, "Expand", 2, "Shrink", 1)
          /\ t.out >= MIN_THICKNESS
    /\ t.op = "turning_radius" =>
          /\ t.out = Stacked(t.kinds, BASE_TURNING_RADIUS, MIN_TURNING_RADIUS,
                             "SlowTurning", 1, "FastTurning", 1)
          /\ t.out >= MIN_TURNING_RADIUS
    /\ t.op = "arc" =>
          /\ t.out = Stacked(t.kinds, BASE_TURNING_RADIUS, MIN_TURNING_RADIUS,
                             "SlowTurning", 1, "FastTurning", 1)
          /\ t.out > 0
          /\ Last(t.p.trail).radius = t.out
          /\ t.p.angle = ((UPDATE_TIME * Stacked(t.kinds, BASE_SPEED, MIN_SPEED,
                                                 "Speedup", 1, "Slowdown", 1))
                          \div t.out) * angle_sign(direction(t.p))

\* Two Slowdown effects are active and the speed has been computed: base
\* plus deltas is below the minimum, the result is the minimum.
C35_Witness ==
    /\ t.op = "speed"
    /\ Picked(t.kinds, "Slowdown") = 2
    /\ Picked(t.kinds, "Speedup") = 0
    /\ t.out = MIN_SPEED

---------------------------------------------------------------------------
(* SpecRoll: the spawn step of an empty world whose spawn roll succeeds,   *)
(* for every item_kind_idx that gen_range(0..SUM_OF_ITEM_SPAWN_RATES) can  *)
(* draw and three positions gen_item_position can return.                  *)

InitRoll ==
    /\ state = GameState("Running", 0)
    /\ clock = [now |-> 0, frame_delta |-> 0]
    /\ items = << >>
    /\ effects = << >>
    /\ players = << >>
    /\ crash_feed = << >>
    /\ next_id = 0
    /\ \E r \in 0..(SUM_OF_ITEM_SPAWN_RATES - 1) :
         \E q \in gen_item_position(players, items, { <<2, 2>>, <<5, 4>>, <<8, 6>> }) :
            t = [item_kind_idx |-> r, pos |-> q, done |-> FALSE]

\* "// spawn items" with the draws held in t.
SpawnRoll ==
    /\ ~t.done
    /\ items' = spawn_items(items, [hit |-> TRUE, item_kind_idx |-> t.item_kind_idx,
                                    pos |-> t.pos])
    /\ t' = [t EXCEPT !.done = TRUE]
    /\ UNCHANGED << state, clock, effects, players, crash_feed, next_id >>

SpecRoll == InitRoll /\ [][SpawnRoll]_vars

\* The sum of the spawn rates of the first n item kinds.
Cum(n) ==
    LET f[j \in 0..n] == IF j = 0 THEN 0 ELSE f[j - 1] + spawn_rate(ITEM_KINDS[j])
    IN  f[n]

\* The rolls for which the loop selects kind k.
RollsFor(k) ==
    { r \in 0..(SUM_OF_ITEM_SPAWN_RATES - 1) : item_kind_loop(1, 0, r) = << k >> }

\* C36: every roll below SUM_OF_ITEM_SPAWN_RATES selects exactly one item
\* kind, the kind whose interval of cumulative weights holds the roll, so
\* that each kind k is selected by spawn_rate(k) rolls; the sum of the
\* weights fits a u8; and the item the spawn step adds has the selected
\* kind.
C36_WeightedChoice ==
    /\ Cum(Len(ITEM_KINDS)) = SUM_OF_ITEM_SPAWN_RATES
    /\ SUM_OF_ITEM_SPAWN_RATES < 256
    /\ \A r \in 0..(SUM_OF_ITEM_SPAWN_RATES - 1) :
          /\ item_kind_loop(1, 0, r) # << >>
          /\ \A n \in 1..Len(ITEM_KINDS) :
                item_kind_loop(1, 0, r) = << ITEM_KINDS[n] >> <=> (Cum(n - 1) <= r /\ r < Cum(n))
    /\ \A n \in 1..Len(ITEM_KINDS) :
          Cardinality(RollsFor(ITEM_KINDS[n])) = spawn_rate(ITEM_KINDS[n])
    /\ t.done =>
          /\ Len(items) = 1
          /\ items[1].pos = t.pos[1]
          /\ \E n \in 1..Len(ITEM_KINDS) :
                /\ items[1].kind = ITEM_KINDS[n]
                /\ Cum(n - 1) <= t.item_kind_idx /\ t.item_kind_idx < Cum(n)

\* The highest roll has spawned an item of the last kind.
C36_Witness ==
    /\ t.done
    /\ t.item_kind_idx = SUM_OF_ITEM_SPAWN_RATES - 1
    /\ Len(items) = 1
    /\ items[1].kind = ITEM_KINDS[Len(ITEM_KINDS)]

---------------------------------------------------------------------------

\* The outcomes the draws of the spawn step can have: the spawn roll, the
\* kind roll, and Some(pos) or None from gen_item_position.
SpawnOutcomes ==
    { [hit |-> h, item_kind_idx |-> k, pos |-> q] :
        h \in BOOLEAN, k \in 0..(SUM_OF_ITEM_SPAWN_RATES - 1),
        q \in { << >> } \cup { << d.pos >> : d \in ItemDraws } }

\* C37: the world never holds more than MAX_ITEMS items; whatever the spawn
\* step draws, it adds at most one item, adds none when MAX_ITEMS items
\* exist, and adds none when gen_item_position returns None; and the item
\* list grows only in an update() of a Running round, by one item.
C37_ItemCap ==
    /\ [](/\ Len(items) <= MAX_ITEMS
          /\ \A sp \in SpawnOutcomes :
                /\ Len(spawn_items(items, sp)) <= MAX_ITEMS
                /\ spawn_items(items, sp) = items
                      \/ /\ Len(items) < MAX_ITEMS /\ sp.hit /\ sp.pos # << >>
                         /\ Len(spawn_items(items, sp)) = Len(items) + 1
                         /\ SubSeq(spawn_items(items, sp), 1, Len(items)) = items)
    /\ [][Len(items') > Len(items) =>
            /\ RunningTick
            /\ Len(items) < MAX_ITEMS
            /\ Len(items') = Len(items) + 1]_vars

\* Two spawn steps have filled the world: MAX_ITEMS items lie in it.
C37_Witness ==
    /\ state.kind \in {"Running", "Stopped"}
    /\ clock.now >= state.start + 2 * UPDATE_TIME
    /\ Len(items) = MAX_ITEMS

---------------------------------------------------------------------------
(* SpecJoin: a local game of two or three players in which the player menu *)
(* is used while a round runs: a third player joins, or a player is        *)
(* removed, in any game state.                                             *)

ScJoin ==
    [Sc3 EXCEPT !.pts = { <<2, 2>>, <<5, 3>>, <<6, 5>> },
                !.angs = { 0, 2 },
                !.round_sizes = { 2, 3 },
                !.menu_in = GameStateKinds,
                !.add_at = { 0, 4 },
                !.remove_at = { 4, 5 },
                !.remove_idx = { 0, 2 },
                !.pause_at = { 4 },
                !.keys_at = { 3 },
                !.gap_at = {},
                !.spawn_at = {}]

SpecJoin == InitSc(ScJoin) /\ [][NextSc(ScJoin)]_vars

\* C38: in every state between two calls every player's crashed flag equals
\* its just_crashed flag, and a state in which update() leaves a round
\* Running has at least two players that are not crashed.
C38_RunningHasTwoAlive ==
    /\ [](\A i \in 1..Len(players) : players[i].crashed = players[i].just_crashed)
    /\ [][(Tick /\ state'.kind = "Running") =>
            Cardinality(Uncrashed(players')) >= 2]_vars

\* A round of three players is Running after a tick in which one of them
\* has crashed.
C38_Witness ==
    /\ state.kind = "Running"
    /\ clock.now > state.start
    /\ Len(players) = 3
    /\ Cardinality(Uncrashed(players)) = 2
    /\ \E i \in 1..Len(players) : players[i].crashed /\ players[i].just_crashed

---------------------------------------------------------------------------

(* SpecRounds: two players play round after round; the draws of every     *)
(* restart put player 1 at (7,5) and player 2 at (2,2), both heading west, *)
(* so that player 2 runs into the wall in its first movement step and      *)
(* player 1 wins the round.                                                *)

MaxRoundsNow == 327690

ScRounds ==
    [ScHeadOn EXCEPT !.pts = { <<7, 5>>, <<2, 2>> },
                     !.angs = { 2 },
                     !.dirs = << {"Straight"}, {"Straight"} >>,
                     !.keys_at = {}]

\* Key::Space or ClientEvent::Restart after a round: world.restart(), with
\* the draws of the scenario.
RestartRounds ==
    /\ t = "none"
    /\ state.kind = "Stopped"
    /\ << [pos |-> <<7, 5>>, angle |-> 2], [pos |-> <<2, 2>>, angle |-> 2] >>
          \in RestartDraws(players, 1, ScRounds)
    /\ Become(restart(W, << [pos |-> <<7, 5>>, angle |-> 2],
                            [pos |-> <<2, 2>>, angle |-> 2] >>))
    /\ UNCHANGED t

\* world.update() while a round starts or runs; "p.score += 1" at u16::MAX
\* wraps or aborts the program, as the build decides.
UpdateRounds ==
    /\ t = "none"
    /\ state.kind \in {"Starting", "Running"}
    /\ clock.now < MaxRoundsNow
    /\ \E rnd \in Rnds(W, ScRounds) :
          \/ Become(update(W, rnd)) /\ UNCHANGED t
          \/ /\ \E i \in 1..Len(players) :
                   /\ players[i].score = U16_RANGE - 1
                   /\ update(W, rnd).players[i].score < players[i].score
             /\ t' = "panic"
             /\ UNCHANGED world_vars

SpecRounds == InitSc(ScRounds) /\ [][RestartRounds \/ UpdateRounds]_vars

\* The pairs << i, j >> such that player i before the step and player j
\* after it are the same player.
Same == { ij \in (1..Len(players)) \X (1..Len(players')) :
            players[ij[1]].id = players'[ij[2]].id }

\* C39: in no step does the score of a player go down; it goes up, by one,
\* only in an update() that takes the round from Running to Stopped, and
\* for at most one player; restart, toggle_pause, add_player, remove_player
\* and the key input leave the score of every player that stays as it is;
\* and no update() aborts the program.
C39_ScoreOnlyAtStop ==
    /\ [][/\ \A ij \in Same :
                /\ players'[ij[2]].score >= players[ij[1]].score
                /\ players'[ij[2]].score # players[ij[1]].score =>
                      /\ Tick
                      /\ state.kind = "Running" /\ state'.kind = "Stopped"
                      /\ players'[ij[2]].score = players[ij[1]].score + 1
                      /\ ~players'[ij[2]].crashed
          /\ Cardinality({ ij \in Same : players'[ij[2]].score # players[ij[1]].score })
                <= 1]_vars
    /\ [](t # "panic")

---------------------------------------------------------------------------

\* C40: a player that is crashed before a step and is still in the list
\* after it is either reset by restart() (Stopped to Starting: not crashed,
\* empty trail) or stays crashed with the same position and heading; in the
\* second case the step adds no section to its trail (a Clear item may
\* empty it), gives it no new effect (no random gap, no item) and appends no
\* crash record that reports it.
C40_CrashedStaysPut ==
    [][\A ij \in Same :
          players[ij[1]].crashed =>
              \/ /\ state.kind = "Stopped" /\ state'.kind = "Starting"
                 /\ ~players'[ij[2]].crashed
                 /\ ~players'[ij[2]].just_crashed
                 /\ players'[ij[2]].trail = << >>
              \/ /\ players'[ij[2]].crashed
                 /\ players'[ij[2]].pos = players[ij[1]].pos
                 /\ players'[ij[2]].angle = players[ij[1]].angle
                 /\ players'[ij[2]].trail \in { players[ij[1]].trail, << >> }
                 /\ Range(players'[ij[2]].effects) \subseteq Range(players[ij[1]].effects)
                 /\ \A c \in NewCrashes : CrashedName(c) # players[ij[1]].name]_vars

\* A round of three players went on after one of them had crashed in an
\* earlier tick.
C40_Witness ==
    /\ state.kind = "Running"
    /\ Len(players) = 3
    /\ \E i \in 1..Len(players) :
          /\ players[i].crashed
          /\ \E k \in 1..Len(crash_feed) :
                /\ CrashedName(crash_feed[k]) = players[i].name
                /\ crash_feed[k].time < clock.now

====
